---- MODULE Spec2Model ----
(***************************************************************************)
(* State-machine model of the authentication core of matadcze/tequipy:     *)
(* AuthService (register / login / refresh / change password / update      *)
(* profile / delete account), JWTProvider, RefreshTokenRepositoryImpl,     *)
(* UserRepositoryImpl, AuthRateLimiter and RateLimitMiddleware, over the   *)
(* SQL tables declared in models.py and the Redis keys used by             *)
(* rate_limiter.py and rate_limit.py; and of the                           *)
(* weather lookup: WeatherService over WeatherCache and the upstream       *)
(* client.                                                                 *)
(*                                                                         *)
(* Time is counted in whole seconds (the resolution of the JWT exp claim). *)
(* Strings the code inspects (emails, passwords, names) are sequences of   *)
(* one-character strings; opaque identifiers (UUIDs, client addresses) are *)
(* numbers.                                                                *)
(*                                                                         *)
(* Spec     register, login, refresh and change password, a step per call; *)
(* LockSpec login with the failed-login counter and the account lockout;   *)
(* RateSpec the sliding-window limits of AuthRateLimiter;                  *)
(* ConcSpec refresh and delete_account as overlapping requests, one step   *)
(*          per SQL statement, each request in its own session.            *)
(* RaceSpec logins of one user as overlapping requests, a step per await;  *)
(* OutageSpec logins while Redis may be unreachable;                       *)
(* CodecSpec verify_token on token strings of any origin;                  *)
(* RepoSpec the refresh-token repository on its own;                       *)
(* AccountSpec the six AuthService calls on valid and invalid input;       *)
(* WeatherSpec WeatherCache and WeatherService;                            *)
(* FloodSpec a client that goes on calling after it was denied;            *)
(* PipeSpec concurrent checks on one rate-limit key;                       *)
(* GateSpec the logins of RaceSpec, the lock check and the password        *)
(*          comparison as separate steps;                                  *)
(* TwinSpec concurrent refreshes presenting one token;                     *)
(* InactiveSpec login and refresh for a deactivated or deleted user;       *)
(* EnrolSpec concurrent registrations;                                     *)
(* MiddlewareSpec RateLimitMiddleware.dispatch.                            *)
(***************************************************************************)
EXTENDS Integers, Sequences, FiniteSets, TLC

VARIABLES
    now,             \* the wall clock, seconds (utc_now(), time.time())
    ticks,           \* number of clock advances so far (bounded)
    users,           \* table users: set of rows
    refresh_tokens,  \* table refresh_tokens: set of rows
    uuids,           \* number of uuid4() values drawn for rows so far
    redis,           \* the Redis keyspace: key -> [value, expire_at]
    issued,          \* every token string returned to a client so far
    inflight,        \* requests in progress: their position and database session
    l1_cache,        \* WeatherCache._l1_cache of the process: key -> [value, expires]
    last,            \* the last service call: arguments, outcome, metrics
    obs              \* the observers' notes about the history (see Observers)

vars == <<now, ticks, users, refresh_tokens, uuids, redis, inflight,
          issued, l1_cache, last, obs>>

(***************************************************************************)
(* Bounds of the model.                                                    *)
(***************************************************************************)
MaxTicks == 2
MaxUsers == 1
MaxTokens == 3
MaxFailedLogins == 1
MaxLockTokens == 1
MaxRateTicks == 4
MaxInflight == 2
MaxConcTicks == 1
MaxRepeats == 1
MaxAccountTokens == 2
MaxAccountTicks == 1
MaxWeatherTicks == 2

(***************************************************************************)
(* Program constants.                                                      *)
(***************************************************************************)
LOGIN_ATTEMPTS_PER_MINUTE == 5
REGISTER_ATTEMPTS_PER_MINUTE == 3
REFRESH_TOKEN_ATTEMPTS_PER_MINUTE == 10
PASSWORD_CHANGE_ATTEMPTS_PER_MINUTE == 5
RATE_WINDOW_SECONDS == 60
FAILED_LOGIN_THRESHOLD == 5
ACCOUNT_LOCKOUT_MINUTES == 15
FAILED_LOGIN_TTL == 3600
access_token_expire_minutes == 15
refresh_token_expire_days == 7
MIN_PASSWORD_LENGTH == 8
BCRYPT_MAX_BYTES == 72
CACHE_KEY_PREFIX == "weather:current"
L1_TTL_SECONDS == 30
weather_cache_ttl_seconds == 60

NoExpiry == 0 - 1

Min(a, b) == IF a < b THEN a ELSE b

Max(a, b) == IF a > b THEN a ELSE b

(***************************************************************************)
(* Input strings.                                                          *)
(***************************************************************************)
EmailA == <<"a", "@", "x">>
EmailB == <<"b", "@", "x">>
EmailNoAt == <<"a", "x">>
Password1 == <<"p", "a", "s", "s", "w", "o", "r", "d">>
Password2 == <<"l", "e", "t", "m", "e", "i", "n", "2">>
PasswordShort == <<"p", "w">>
NameAnn == <<"A", "n", "n">>
NamePadded == <<" ", "A", "n", "n", " ">>
NameBlank == <<" ">>
NameBob == <<"B", "o", "b", " ">>

Emails == {EmailA, EmailB}
Passwords == {Password1, Password2}
Names == {NamePadded}

(***************************************************************************)
(* Python string helpers.                                                  *)
(***************************************************************************)
Contains(s, c) == \E i \in 1..Len(s) : s[i] = c

RECURSIVE LStrip(_)
LStrip(s) == IF s # <<>> /\ Head(s) = " " THEN LStrip(Tail(s)) ELSE s

RECURSIVE RStrip(_)
RStrip(s) ==
    IF s # <<>> /\ s[Len(s)] = " " THEN RStrip(SubSeq(s, 1, Len(s) - 1)) ELSE s

strip(s) == RStrip(LStrip(s))

(***************************************************************************)
(* PasswordUtils (bcrypt): only the first 72 bytes of a password count.    *)
(***************************************************************************)
hash_password(password) ==
    [bcrypt |-> SubSeq(password, 1, Min(Len(password), BCRYPT_MAX_BYTES))]

verify_password(plain_password, hashed_password) ==
    hashed_password = hash_password(plain_password)

(***************************************************************************)
(* JWTProvider.  A token string is determined by its claims and by whether *)
(* its signature verifies under settings.jwt_secret_key: jwt.encode is a   *)
(* deterministic function of the claims, and exp is cut to whole seconds.  *)
(* `claims` names the claims the token carries.                            *)
(***************************************************************************)
NoToken == [claims |-> {}, sub |-> 0, exp |-> 0, type |-> "", nbf |-> 0, sig |-> ""]

create_access_token(user_id, t) ==
    [claims |-> {"sub", "exp", "type"}, sub |-> user_id,
     exp |-> t + access_token_expire_minutes * 60,
     type |-> "access", nbf |-> 0, sig |-> "valid"]

create_refresh_token(user_id, t) ==
    [claims |-> {"sub", "exp", "type"}, sub |-> user_id,
     exp |-> t + refresh_token_expire_days * 86400,
     type |-> "refresh", nbf |-> 0, sig |-> "valid"]

AuthError(text) == [error |-> "AuthenticationError", text |-> text]

\* verify_token without the comparison of the type claim.
verify_token_of_any_type(token, token_type, t) ==
    IF token.sig # "valid"
      THEN AuthError("Could not validate credentials")
    ELSE IF "nbf" \in token.claims /\ token.nbf > t
      THEN AuthError("Could not validate credentials")
    ELSE IF "exp" \in token.claims /\ token.exp < t
      THEN AuthError("Token has expired")
    ELSE IF ~({"sub", "exp", "type"} \subseteq token.claims)
      THEN AuthError("Token missing required claims")
    ELSE IF t > token.exp
      THEN AuthError("Token has expired")
    ELSE IF "nbf" \in token.claims /\ t < token.nbf
      THEN AuthError("Token not yet valid")
    ELSE [error |-> "", text |-> "", sub |-> token.sub, exp |-> token.exp,
          type |-> token.type]

\* verify_token without the check of the required claims.
verify_token_without_required_claims(token, token_type, t) ==
    IF token.sig # "valid"
      THEN AuthError("Could not validate credentials")
    ELSE IF "nbf" \in token.claims /\ token.nbf > t
      THEN AuthError("Could not validate credentials")
    ELSE IF "exp" \in token.claims /\ token.exp < t
      THEN AuthError("Token has expired")
    ELSE IF token.type # token_type
      THEN AuthError("Invalid token type")
    ELSE IF t > token.exp
      THEN AuthError("Token has expired")
    ELSE IF "nbf" \in token.claims /\ t < token.nbf
      THEN AuthError("Token not yet valid")
    ELSE [error |-> "", text |-> "", sub |-> token.sub, exp |-> token.exp,
          type |-> token.type]

\* verify_token without either check of exp.
verify_token_ignoring_expiry(token, token_type, t) ==
    IF token.sig # "valid"
      THEN AuthError("Could not validate credentials")
    ELSE IF "nbf" \in token.claims /\ token.nbf > t
      THEN AuthError("Could not validate credentials")
    ELSE IF ~({"sub", "exp", "type"} \subseteq token.claims)
      THEN AuthError("Token missing required claims")
    ELSE IF token.type # token_type
      THEN AuthError("Invalid token type")
    ELSE IF "nbf" \in token.claims /\ t < token.nbf
      THEN AuthError("Token not yet valid")
    ELSE [error |-> "", text |-> "", sub |-> token.sub, exp |-> token.exp,
          type |-> token.type]

\* The payload, or the AuthenticationError verify_token raises.  jwt.decode
\* checks the signature, then nbf and exp when present; the provider then
\* checks the required claims, the type, exp and nbf itself.
verify_token(token, token_type, t) ==
    IF token.sig # "valid"
      THEN AuthError("Could not validate credentials")
    ELSE IF "nbf" \in token.claims /\ token.nbf > t
      THEN AuthError("Could not validate credentials")
    ELSE IF "exp" \in token.claims /\ token.exp < t
      THEN AuthError("Token has expired")
    ELSE IF ~({"sub", "exp", "type"} \subseteq token.claims)
      THEN AuthError("Token missing required claims")
    ELSE IF token.type # token_type
      THEN AuthError("Invalid token type")
    ELSE IF t > token.exp
      THEN AuthError("Token has expired")
    ELSE IF "nbf" \in token.claims /\ t < token.nbf
      THEN AuthError("Token not yet valid")
    ELSE [error |-> "", text |-> "", sub |-> token.sub, exp |-> token.exp,
          type |-> token.type]

get_user_id_from_token(token, t) ==
    LET payload == verify_token(token, "access", t)
    IN  IF payload.error # "" THEN [error |-> payload.error, text |-> payload.text, user_id |-> 0]
        ELSE [error |-> "", text |-> "", user_id |-> payload.sub]

\* hashlib.sha256(token.encode()).hexdigest(): one digest per token string.
sha256(token) == [sha256 |-> token]

(***************************************************************************)
(* Redis.  A key holds [value, expire_at]; it is gone once the clock is    *)
(* past expire_at.                                                         *)
(***************************************************************************)
Key(ns, id) == [ns |-> ns, id |-> id]

Live(r, key, t) ==
    key \in DOMAIN r /\ (r[key].expire_at = NoExpiry \/ t <= r[key].expire_at)

Put(r, key, entry) ==
    [k \in DOMAIN r \cup {key} |-> IF k = key THEN entry ELSE r[k]]

redis_delete(r, key) == [k \in DOMAIN r \ {key} |-> r[k]]

redis_incr(r, key, t) ==
    IF Live(r, key, t)
    THEN Put(r, key, [r[key] EXCEPT !.value = @ + 1])
    ELSE Put(r, key, [value |-> 1, expire_at |-> NoExpiry])

redis_expire(r, key, seconds, t) ==
    IF Live(r, key, t)
    THEN Put(r, key, [r[key] EXCEPT !.expire_at = t + seconds])
    ELSE r

redis_setex(r, key, seconds, value, t) ==
    Put(r, key, [value |-> value, expire_at |-> t + seconds])

redis_ttl(r, key, t) ==
    IF ~Live(r, key, t) THEN 0 - 2
    ELSE IF r[key].expire_at = NoExpiry THEN 0 - 1
    ELSE r[key].expire_at - t

\* Keys whose expiry has passed are dropped by the store.
Purge(r, t) == [k \in {x \in DOMAIN r : Live(r, x, t)} |-> r[k]]

\* Sorted sets: the value is a set of [member, score]; a member occurs once,
\* and a sorted set left empty is removed.
zremrangebyscore(r, key, min, max, t) ==
    IF ~Live(r, key, t) THEN redis_delete(r, key)
    ELSE LET kept == {e \in r[key].value : ~(min <= e.score /\ e.score <= max)}
         IN  IF kept = {} THEN redis_delete(r, key)
             ELSE Put(r, key, [r[key] EXCEPT !.value = kept])

zcard(r, key, t) == IF Live(r, key, t) THEN Cardinality(r[key].value) ELSE 0

zadd(r, key, member, score, t) ==
    LET entry == [member |-> member, score |-> score]
    IN  IF Live(r, key, t)
        THEN Put(r, key, [r[key] EXCEPT
                            !.value = {e \in @ : e.member # member} \cup {entry}])
        ELSE Put(r, key, [value |-> {entry}, expire_at |-> NoExpiry])

(***************************************************************************)
(* AuthRateLimiter: failed-login counter and account lockout.              *)
(***************************************************************************)
FailedLoginKey(user_id) == Key("auth:failed_login", user_id)
LockoutKey(user_id) == Key("auth:locked", user_id)

\* record_failed_login locking one failure late (> for >=).
record_failed_login_late(r, user_id, t) ==
    LET r1 == redis_incr(r, FailedLoginKey(user_id), t)
        failed_count == r1[FailedLoginKey(user_id)].value
        r2 == redis_expire(r1, FailedLoginKey(user_id), FAILED_LOGIN_TTL, t)
        should_lock == failed_count > FAILED_LOGIN_THRESHOLD
        r3 == IF should_lock
              THEN redis_setex(r2, LockoutKey(user_id),
                               ACCOUNT_LOCKOUT_MINUTES * 60, "locked", t)
              ELSE r2
    IN  [redis |-> r3, failed_count |-> failed_count, should_lock |-> should_lock]

record_failed_login(r, user_id, t) ==
    LET r1 == redis_incr(r, FailedLoginKey(user_id), t)
        failed_count == r1[FailedLoginKey(user_id)].value
        r2 == redis_expire(r1, FailedLoginKey(user_id), FAILED_LOGIN_TTL, t)
        should_lock == failed_count >= FAILED_LOGIN_THRESHOLD
        r3 == IF should_lock
              THEN redis_setex(r2, LockoutKey(user_id),
                               ACCOUNT_LOCKOUT_MINUTES * 60, "locked", t)
              ELSE r2
    IN  [redis |-> r3, failed_count |-> failed_count, should_lock |-> should_lock]

\* reset_failed_login that leaves the counter in place.
reset_failed_login_skipped(r, user_id) == r

reset_failed_login(r, user_id) == redis_delete(r, FailedLoginKey(user_id))

\* is_account_locked reading only a flag without expiry as a lock.
is_account_locked_without_expiry(r, user_id, t) ==
    LET ttl == redis_ttl(r, LockoutKey(user_id), t)
    IN  IF ttl = 0 - 1
          THEN [is_locked |-> TRUE, remaining |-> ACCOUNT_LOCKOUT_MINUTES * 60]
        ELSE [is_locked |-> FALSE, remaining |-> 0]

\* is_account_locked that never reports a lock.
is_account_locked_never(r, user_id, t) == [is_locked |-> FALSE, remaining |-> 0]

is_account_locked(r, user_id, t) ==
    LET ttl == redis_ttl(r, LockoutKey(user_id), t)
    IN  IF ttl = 0 - 1
          THEN [is_locked |-> TRUE, remaining |-> ACCOUNT_LOCKOUT_MINUTES * 60]
        ELSE IF ttl = 0 - 2
          THEN [is_locked |-> FALSE, remaining |-> 0]
        ELSE [is_locked |-> TRUE, remaining |-> ttl]

(***************************************************************************)
(* AuthRateLimiter: the sliding-window limits.  time.time() is the clock   *)
(* value `t`; str(now), the member added to the window, is one string per  *)
(* clock value, so the member is modelled by the clock value itself.       *)
(* store_up tells whether the pipeline reaches Redis; when it does not,    *)
(* the except branch answers.                                              *)
(***************************************************************************)
\* _check_rate_limit without the except branch's answer: the store's error
\* reaches the caller and nothing is allowed.
_check_rate_limit_failing_closed(r, key, max_requests, window_seconds, t, store_up) ==
    LET r1 == zremrangebyscore(r, key, 0, t - window_seconds, t)
        count == zcard(r1, key, t)
        r2 == zadd(r1, key, t, t, t)
        r3 == redis_expire(r2, key, window_seconds, t)
    IN  IF store_up
        THEN [error |-> "", redis |-> r3, is_allowed |-> count < max_requests,
              remaining |-> Max(0, max_requests - count - 1),
              reset_time |-> t + window_seconds]
        ELSE [error |-> "ConnectionError", redis |-> r, is_allowed |-> FALSE, remaining |-> 0,
              reset_time |-> t + window_seconds]

\* _check_rate_limit keeping an entry that is exactly a window old.
_check_rate_limit_keeping_boundary(r, key, max_requests, window_seconds, t, store_up) ==
    LET r1 == zremrangebyscore(r, key, 0, t - window_seconds - 1, t)
        count == zcard(r1, key, t)
        r2 == zadd(r1, key, t, t, t)
        r3 == redis_expire(r2, key, window_seconds, t)
    IN  IF store_up
        THEN [error |-> "", redis |-> r3, is_allowed |-> count < max_requests,
              remaining |-> Max(0, max_requests - count - 1),
              reset_time |-> t + window_seconds]
        ELSE [error |-> "", redis |-> r, is_allowed |-> TRUE, remaining |-> max_requests,
              reset_time |-> t + window_seconds]

\* _check_rate_limit for a caller whose time.time() returned t and whose
\* pipeline (MULTI ... EXEC, one unit at the store) is executed at time at.
_check_rate_limit_at(r, key, max_requests, window_seconds, t, at, store_up) ==
    LET r1 == zremrangebyscore(r, key, 0, t - window_seconds, at)
        count == zcard(r1, key, at)
        r2 == zadd(r1, key, t, t, at)
        r3 == redis_expire(r2, key, window_seconds, at)
    IN  IF store_up
        THEN [error |-> "", redis |-> r3, is_allowed |-> count < max_requests,
              remaining |-> Max(0, max_requests - count - 1),
              reset_time |-> t + window_seconds]
        ELSE [error |-> "", redis |-> r, is_allowed |-> TRUE, remaining |-> max_requests,
              reset_time |-> at + window_seconds]

_check_rate_limit(r, key, max_requests, window_seconds, t, store_up) ==
    _check_rate_limit_at(r, key, max_requests, window_seconds, t, t, store_up)

check_login_rate_limit(r, client_ip, t, store_up) ==
    _check_rate_limit(r, Key("auth:login", client_ip), LOGIN_ATTEMPTS_PER_MINUTE,
                      RATE_WINDOW_SECONDS, t, store_up)

check_register_rate_limit(r, client_ip, t, store_up) ==
    _check_rate_limit(r, Key("auth:register", client_ip), REGISTER_ATTEMPTS_PER_MINUTE,
                      RATE_WINDOW_SECONDS, t, store_up)

check_refresh_rate_limit(r, client_ip, t, store_up) ==
    _check_rate_limit(r, Key("auth:refresh", client_ip),
                      REFRESH_TOKEN_ATTEMPTS_PER_MINUTE, RATE_WINDOW_SECONDS, t, store_up)

check_password_change_rate_limit(r, user_id, t, store_up) ==
    _check_rate_limit(r, Key("auth:password_change", user_id),
                      PASSWORD_CHANGE_ATTEMPTS_PER_MINUTE, RATE_WINDOW_SECONDS, t, store_up)

(***************************************************************************)
(* UserRepositoryImpl and RefreshTokenRepositoryImpl over the tables of    *)
(* models.py: users.email and refresh_tokens.token_hash are unique,        *)
(* refresh_tokens.user_id references users.id, and deleting a user deletes *)
(* the user's refresh tokens (cascade).                                    *)
(***************************************************************************)
get_by_email(rows, email) == {u \in rows : u.email = email}

get_by_id(rows, user_id) == {u \in rows : u.id = user_id}

user_create(rows, user) ==
    IF \E u \in rows : u.email = user.email
    THEN [error |-> "IntegrityError", text |-> "unique users.email", rows |-> rows]
    ELSE [error |-> "", text |-> "", rows |-> rows \cup {user}]

\* update copies the entity's columns into the row and flushes.  An UPDATE is
\* emitted when a column changed; when it does not set updated_at itself, the
\* column's onupdate=utc_now supplies the time of the statement.
user_update(rows, user, t) ==
    {IF u.id # user.id \/ u = user THEN u
     ELSE IF u.updated_at # user.updated_at THEN user
     ELSE [user EXCEPT !.updated_at = t] : u \in rows}

user_delete(rows, user_id) == {u \in rows : u.id # user_id}

cascade_delete(tokens, user_id) == {r \in tokens : r.user_id # user_id}

\* token_create without the foreign key of refresh_tokens.user_id.
token_create_unreferenced(tokens, rows, token) ==
    IF \E r \in tokens : r.token_hash = token.token_hash
      THEN [error |-> "IntegrityError", text |-> "unique refresh_tokens.token_hash",
            tokens |-> tokens]
    ELSE [error |-> "", text |-> "", tokens |-> tokens \cup {token}]

token_create(tokens, rows, token) ==
    IF \E r \in tokens : r.token_hash = token.token_hash
      THEN [error |-> "IntegrityError", text |-> "unique refresh_tokens.token_hash",
            tokens |-> tokens]
    ELSE IF ~\E u \in rows : u.id = token.user_id
      THEN [error |-> "IntegrityError", text |-> "foreign key refresh_tokens.user_id",
            tokens |-> tokens]
    ELSE [error |-> "", text |-> "", tokens |-> tokens \cup {token}]

\* get_by_token_hash taking a row for usable at the very instant it expires.
get_by_token_hash_at_expiry(tokens, token_hash, t) ==
    {r \in tokens : r.token_hash = token_hash /\ ~r.revoked /\ r.expires_at >= t}

get_by_token_hash(tokens, token_hash, t) ==
    {r \in tokens : r.token_hash = token_hash /\ ~r.revoked /\ r.expires_at > t}

revoke_by_token_hash(tokens, token_hash) ==
    {IF r.token_hash = token_hash THEN [r EXCEPT !.revoked = TRUE] ELSE r : r \in tokens}

\* revoke_by_user_id flipping the flag instead of setting it.
revoke_by_user_id_toggling(tokens, user_id) ==
    {IF r.user_id = user_id THEN [r EXCEPT !.revoked = ~@] ELSE r : r \in tokens}

revoke_by_user_id(tokens, user_id) ==
    {IF r.user_id = user_id THEN [r EXCEPT !.revoked = TRUE] ELSE r : r \in tokens}

RefreshToken(id, user_id, token_hash, expires_at) ==
    [id |-> id, user_id |-> user_id, token_hash |-> token_hash,
     expires_at |-> expires_at, revoked |-> FALSE]

\* updated_at defaults to the time of construction (created_at, which nothing
\* reads or changes afterwards, is left out).
User(id, email, password_hash, full_name, t) ==
    [id |-> id, email |-> email, password_hash |-> password_hash,
     full_name |-> full_name, is_active |-> TRUE, updated_at |-> t]

can_authenticate(user) == user.is_active

(***************************************************************************)
(* AuthService.  Each operator computes what one call does to the tables   *)
(* and to Redis and what it returns or raises.  A call runs in one         *)
(* database session (get_db): an exception rolls the session back, so a    *)
(* failed call leaves the tables as they were; Redis writes are not rolled *)
(* back.  Every exit path records one metric.                              *)
(***************************************************************************)
Metric(operation, status) == <<[operation |-> operation, status |-> status]>>

\* The call result if the services had no `except Exception` clause.
Outcome_without_except_exception(operation, error, text, minutes, us, toks, r, access, refresh) ==
    [error |-> error, text |-> text, minutes |-> minutes,
     users |-> us, refresh_tokens |-> toks, redis |-> r,
     access_token |-> access, refresh_token |-> refresh,
     metrics |-> IF error = "" THEN Metric(operation, "success")
                 ELSE IF error \in {"ValidationError", "AuthenticationError"}
                   THEN Metric(operation, "error")
                 ELSE <<>>]

Outcome(operation, error, text, minutes, us, toks, r, access, refresh) ==
    [error |-> error, text |-> text, minutes |-> minutes,
     users |-> us, refresh_tokens |-> toks, redis |-> r,
     access_token |-> access, refresh_token |-> refresh,
     metrics |-> Metric(operation, IF error = "" THEN "success" ELSE "error")]

InvalidCredentials == "Invalid email or password"
LockedRetryIn == "Account locked due to too many failed login attempts. Please try again in N minute(s)."
LockedRetryFixed == "Account locked due to too many failed login attempts. Please try again in N minutes."
\* What redis-py raises from a command when it cannot reach the server.
StoreUnreachable == "Error connecting to Redis"

\* Mint the token pair and persist the refresh-token row (login and refresh).
issue_tokens(operation, user_id, us, toks, toks_before, r, t, token_id) ==
    LET access_token == create_access_token(user_id, t)
        refresh_token == create_refresh_token(user_id, t)
        created == token_create(toks, us,
                       RefreshToken(token_id, user_id, sha256(refresh_token),
                                    t + refresh_token_expire_days * 86400))
    IN  IF created.error # ""
        THEN Outcome(operation, created.error, created.text, 0, us, toks_before, r,
                     NoToken, NoToken)
        ELSE Outcome(operation, "", "", 0, us, created.tokens, r,
                     access_token, refresh_token)

\* login telling an unknown email apart from a wrong password.
login_naming_unknown_user(email, password, rl, store_up, us, toks, r, t, token_id) ==
    LET found == get_by_email(us, email)
        user == CHOOSE u \in found : TRUE
        locked == is_account_locked(r, user.id, t)
        failed == record_failed_login(r, user.id, t)
    IN  IF rl /\ found # {} /\ ~store_up
          THEN Outcome("login", "ConnectionError", StoreUnreachable, 0,
                       us, toks, r, NoToken, NoToken)
        ELSE IF rl /\ found # {} /\ locked.is_locked
          THEN Outcome("login", "AuthenticationError", LockedRetryIn,
                       locked.remaining \div 60, us, toks, r, NoToken, NoToken)
        ELSE IF found = {}
          THEN Outcome("login", "AuthenticationError", "User not found", 0,
                       us, toks, r, NoToken, NoToken)
        ELSE IF ~verify_password(password, user.password_hash)
          THEN IF rl /\ failed.should_lock
                 THEN Outcome("login", "AuthenticationError", LockedRetryFixed,
                              ACCOUNT_LOCKOUT_MINUTES, us, toks, failed.redis,
                              NoToken, NoToken)
               ELSE Outcome("login", "AuthenticationError", InvalidCredentials, 0,
                            us, toks, IF rl THEN failed.redis ELSE r,
                            NoToken, NoToken)
        ELSE IF ~can_authenticate(user)
          THEN Outcome("login", "AuthenticationError", "Account is not active", 0,
                       us, toks, r, NoToken, NoToken)
        ELSE issue_tokens("login", user.id, us, toks, toks,
                          IF rl THEN reset_failed_login(r, user.id) ELSE r,
                          t, token_id)

\* login calling the rate limiter before it looks at the user.
login_asking_the_store_first(email, password, rl, store_up, us, toks, r, t, token_id) ==
    LET found == get_by_email(us, email)
        user == CHOOSE u \in found : TRUE
        locked == is_account_locked(r, user.id, t)
        failed == record_failed_login(r, user.id, t)
    IN  IF rl /\ ~store_up
          THEN Outcome("login", "ConnectionError", StoreUnreachable, 0,
                       us, toks, r, NoToken, NoToken)
        ELSE IF rl /\ found # {} /\ locked.is_locked
          THEN Outcome("login", "AuthenticationError", LockedRetryIn,
                       locked.remaining \div 60, us, toks, r, NoToken, NoToken)
        ELSE IF found = {}
          THEN Outcome("login", "AuthenticationError", InvalidCredentials, 0,
                       us, toks, r, NoToken, NoToken)
        ELSE IF ~verify_password(password, user.password_hash)
          THEN IF rl /\ failed.should_lock
                 THEN Outcome("login", "AuthenticationError", LockedRetryFixed,
                              ACCOUNT_LOCKOUT_MINUTES, us, toks, failed.redis,
                              NoToken, NoToken)
               ELSE Outcome("login", "AuthenticationError", InvalidCredentials, 0,
                            us, toks, IF rl THEN failed.redis ELSE r,
                            NoToken, NoToken)
        ELSE IF ~can_authenticate(user)
          THEN Outcome("login", "AuthenticationError", "Account is not active", 0,
                       us, toks, r, NoToken, NoToken)
        ELSE issue_tokens("login", user.id, us, toks, toks,
                          IF rl THEN reset_failed_login(r, user.id) ELSE r,
                          t, token_id)

login(email, password, rl, store_up, us, toks, r, t, token_id) ==
    LET found == get_by_email(us, email)
        user == CHOOSE u \in found : TRUE
        locked == is_account_locked(r, user.id, t)
        failed == record_failed_login(r, user.id, t)
    IN  IF rl /\ found # {} /\ ~store_up
          THEN Outcome("login", "ConnectionError", StoreUnreachable, 0,
                       us, toks, r, NoToken, NoToken)
        ELSE IF rl /\ found # {} /\ locked.is_locked
          THEN Outcome("login", "AuthenticationError", LockedRetryIn,
                       locked.remaining \div 60, us, toks, r, NoToken, NoToken)
        ELSE IF found = {}
          THEN Outcome("login", "AuthenticationError", InvalidCredentials, 0,
                       us, toks, r, NoToken, NoToken)
        ELSE IF ~verify_password(password, user.password_hash)
          THEN IF rl /\ failed.should_lock
                 THEN Outcome("login", "AuthenticationError", LockedRetryFixed,
                              ACCOUNT_LOCKOUT_MINUTES, us, toks, failed.redis,
                              NoToken, NoToken)
               ELSE Outcome("login", "AuthenticationError", InvalidCredentials, 0,
                            us, toks, IF rl THEN failed.redis ELSE r,
                            NoToken, NoToken)
        ELSE IF ~can_authenticate(user)
          THEN Outcome("login", "AuthenticationError", "Account is not active", 0,
                       us, toks, r, NoToken, NoToken)
        ELSE issue_tokens("login", user.id, us, toks, toks,
                          IF rl THEN reset_failed_login(r, user.id) ELSE r,
                          t, token_id)

refresh_access_token(refresh_token, us, toks, r, t, token_id) ==
    LET payload == verify_token(refresh_token, "refresh", t)
        token_hash == sha256(refresh_token)
        _stored_token == get_by_token_hash(toks, token_hash, t)
    IN  IF payload.error # ""
          THEN Outcome("refresh", payload.error, payload.text, 0, us, toks, r,
                       NoToken, NoToken)
        ELSE issue_tokens("refresh", payload.sub, us,
                          revoke_by_token_hash(toks, token_hash), toks, r, t, token_id)

\* change_password without the revocation of the user's refresh tokens.
change_password_keeping_sessions(user_id, current_password, new_password, us, toks, r, t) ==
    LET found == get_by_id(us, user_id)
        user == CHOOSE u \in found : TRUE
    IN  IF found = {}
          THEN Outcome("change_password", "ValidationError", "User not found", 0,
                       us, toks, r, NoToken, NoToken)
        ELSE IF ~verify_password(current_password, user.password_hash)
          THEN Outcome("change_password", "AuthenticationError",
                       "Current password is incorrect", 0, us, toks, r, NoToken, NoToken)
        ELSE IF Len(new_password) < MIN_PASSWORD_LENGTH
          THEN Outcome("change_password", "ValidationError",
                       "Password must be at least 8 characters", 0, us, toks, r,
                       NoToken, NoToken)
        ELSE IF new_password = current_password
          THEN Outcome("change_password", "ValidationError",
                       "New password must be different from current password", 0,
                       us, toks, r, NoToken, NoToken)
        ELSE Outcome("change_password", "", "", 0,
                     user_update(us, [user EXCEPT !.password_hash = hash_password(new_password)], t),
                     toks, r, NoToken, NoToken)

\* change_password checking the length of the new password before it verifies
\* the current one.
change_password_validating_first(user_id, current_password, new_password, us, toks, r, t) ==
    LET found == get_by_id(us, user_id)
        user == CHOOSE u \in found : TRUE
    IN  IF found = {}
          THEN Outcome("change_password", "ValidationError", "User not found", 0,
                       us, toks, r, NoToken, NoToken)
        ELSE IF Len(new_password) < MIN_PASSWORD_LENGTH
          THEN Outcome("change_password", "ValidationError",
                       "Password must be at least 8 characters", 0, us, toks, r,
                       NoToken, NoToken)
        ELSE IF ~verify_password(current_password, user.password_hash)
          THEN Outcome("change_password", "AuthenticationError",
                       "Current password is incorrect", 0, us, toks, r, NoToken, NoToken)
        ELSE IF new_password = current_password
          THEN Outcome("change_password", "ValidationError",
                       "New password must be different from current password", 0,
                       us, toks, r, NoToken, NoToken)
        ELSE Outcome("change_password", "", "", 0,
                     user_update(us, [user EXCEPT !.password_hash = hash_password(new_password)], t),
                     revoke_by_user_id(toks, user.id), r, NoToken, NoToken)

change_password(user_id, current_password, new_password, us, toks, r, t) ==
    LET found == get_by_id(us, user_id)
        user == CHOOSE u \in found : TRUE
    IN  IF found = {}
          THEN Outcome("change_password", "ValidationError", "User not found", 0,
                       us, toks, r, NoToken, NoToken)
        ELSE IF ~verify_password(current_password, user.password_hash)
          THEN Outcome("change_password", "AuthenticationError",
                       "Current password is incorrect", 0, us, toks, r, NoToken, NoToken)
        ELSE IF Len(new_password) < MIN_PASSWORD_LENGTH
          THEN Outcome("change_password", "ValidationError",
                       "Password must be at least 8 characters", 0, us, toks, r,
                       NoToken, NoToken)
        ELSE IF new_password = current_password
          THEN Outcome("change_password", "ValidationError",
                       "New password must be different from current password", 0,
                       us, toks, r, NoToken, NoToken)
        ELSE Outcome("change_password", "", "", 0,
                     user_update(us, [user EXCEPT !.password_hash = hash_password(new_password)], t),
                     revoke_by_user_id(toks, user.id), r, NoToken, NoToken)

\* update_profile without the early return for an unchanged name.
update_profile_always_updating(user_id, full_name, us, toks, r, t) ==
    LET found == get_by_id(us, user_id)
        user == CHOOSE u \in found : TRUE
        normalized_full_name == strip(full_name)
        fail(text) == Outcome("update_profile", "ValidationError", text, 0, us, toks, r,
                              NoToken, NoToken)
    IN  IF found = {} THEN fail("User not found")
        ELSE IF full_name = <<>> \/ strip(full_name) = <<>>
          THEN fail("Full name cannot be empty")
        ELSE Outcome("update_profile", "", "", 0,
                     user_update(us, [user EXCEPT !.full_name = normalized_full_name,
                                                  !.updated_at = t], t),
                     toks, r, NoToken, NoToken)

update_profile(user_id, full_name, us, toks, r, t) ==
    LET found == get_by_id(us, user_id)
        user == CHOOSE u \in found : TRUE
        normalized_full_name == strip(full_name)
        fail(text) == Outcome("update_profile", "ValidationError", text, 0, us, toks, r,
                              NoToken, NoToken)
    IN  IF found = {} THEN fail("User not found")
        ELSE IF full_name = <<>> \/ strip(full_name) = <<>>
          THEN fail("Full name cannot be empty")
        ELSE IF user.full_name = normalized_full_name
          THEN Outcome("update_profile", "", "", 0, us, toks, r, NoToken, NoToken)
        ELSE Outcome("update_profile", "", "", 0,
                     user_update(us, [user EXCEPT !.full_name = normalized_full_name,
                                                  !.updated_at = t], t),
                     toks, r, NoToken, NoToken)

delete_account(user_id, us, toks, r) ==
    IF get_by_id(us, user_id) = {}
    THEN Outcome("delete_account", "ValidationError", "User not found", 0,
                 us, toks, r, NoToken, NoToken)
    ELSE Outcome("delete_account", "", "", 0, user_delete(us, user_id),
                 cascade_delete(revoke_by_user_id(toks, user_id), user_id), r,
                 NoToken, NoToken)

\* register storing the name as it was given.
register_keeping_padding(email, password, full_name, us, toks, r, t, user_id) ==
    LET fail(text) == Outcome("register", "ValidationError", text, 0, us, toks, r,
                              NoToken, NoToken)
        created == user_create(us, User(user_id, email, hash_password(password),
                                        full_name, t))
    IN  IF get_by_email(us, email) # {} THEN fail("Email already registered")
        ELSE IF email = <<>> \/ ~Contains(email, "@") THEN fail("Invalid email format")
        ELSE IF Len(password) < MIN_PASSWORD_LENGTH
          THEN fail("Password must be at least 8 characters")
        ELSE IF strip(full_name) = <<>> THEN fail("Full name cannot be empty")
        ELSE Outcome("register", created.error, created.text, 0, created.rows, toks, r,
                     NoToken, NoToken)

register(email, password, full_name, us, toks, r, t, user_id) ==
    LET fail(text) == Outcome("register", "ValidationError", text, 0, us, toks, r,
                              NoToken, NoToken)
        created == user_create(us, User(user_id, email, hash_password(password),
                                        strip(full_name), t))
    IN  IF get_by_email(us, email) # {} THEN fail("Email already registered")
        ELSE IF email = <<>> \/ ~Contains(email, "@") THEN fail("Invalid email format")
        ELSE IF Len(password) < MIN_PASSWORD_LENGTH
          THEN fail("Password must be at least 8 characters")
        ELSE IF strip(full_name) = <<>> THEN fail("Full name cannot be empty")
        ELSE Outcome("register", created.error, created.text, 0, created.rows, toks, r,
                     NoToken, NoToken)

(***************************************************************************)
(* The state machine: one action per AuthService call, and the clock.      *)
(* An action takes the sets its inputs are drawn from; each specification  *)
(* below gives them.                                                       *)
(***************************************************************************)
\* get_auth_service always hands AuthService the process-wide rate limiter.
rate_limiter == TRUE

UserIds == 1..uuids.users

\* What a client can present: a token it was given.
Presentable == issued

Call(operation, email, password, token, user_id, out) ==
    [op |-> operation, email |-> email, password |-> password, token |-> token,
     user_id |-> user_id, new_password |-> <<>>, full_name |-> <<>>,
     store_up |-> TRUE, error |-> out.error, text |-> out.text,
     minutes |-> out.minutes, access_token |-> out.access_token,
     refresh_token |-> out.refresh_token, metrics |-> out.metrics]

NoCall ==
    [op |-> "", email |-> <<>>, password |-> <<>>, token |-> NoToken, user_id |-> 0,
     new_password |-> <<>>, full_name |-> <<>>, store_up |-> TRUE, error |-> "",
     text |-> "", minutes |-> 0, access_token |-> NoToken,
     refresh_token |-> NoToken, metrics |-> <<>>]

Commit(out) ==
    /\ users' = out.users
    /\ refresh_tokens' = out.refresh_tokens
    /\ redis' = out.redis
    /\ issued' = IF out.error = "" /\ out.refresh_token # NoToken
                 THEN issued \cup {out.access_token, out.refresh_token}
                 ELSE issued

FailedCount(r, user_id) ==
    IF FailedLoginKey(user_id) \in DOMAIN r THEN r[FailedLoginKey(user_id)].value ELSE 0

\* What the observers have noted when nothing has happened yet.
NoNotes ==
    [rotated |-> {}, stale |-> {}, streak |-> <<>>, limit |-> "", hits |-> <<>>,
     overlapped |-> {}, raced |-> FALSE]

Init ==
    /\ now = 0
    /\ ticks = 0
    /\ users = {}
    /\ refresh_tokens = {}
    /\ uuids = [users |-> 0, tokens |-> 0]
    /\ redis = <<>>
    /\ issued = {}
    /\ inflight = <<>>
    /\ l1_cache = <<>>
    /\ last = NoCall
    /\ obs = NoNotes

Tick(steps, max_ticks) ==
    \E d \in steps :
        /\ ticks < max_ticks
        /\ now' = now + d
        /\ ticks' = ticks + 1
        /\ redis' = Purge(redis, now')
        /\ UNCHANGED <<users, refresh_tokens, uuids, inflight, issued, last>>

Register(emails, passwords, names) ==
    \E email \in emails, password \in passwords, full_name \in names :
        LET out == register(email, password, full_name, users, refresh_tokens, redis,
                            now, uuids.users + 1)
        IN  /\ out.error = "" => uuids.users < MaxUsers
            /\ Commit(out)
            /\ uuids' = IF out.error = "" THEN [uuids EXCEPT !.users = @ + 1] ELSE uuids
            /\ last' = [Call("register", email, password, NoToken, 0, out)
                          EXCEPT !.full_name = full_name]
            /\ UNCHANGED <<now, ticks, inflight>>

Login(emails, passwords, ups, max_tokens, max_failed) ==
    \E email \in emails, password \in passwords, store_up \in ups :
        LET out == login(email, password, rate_limiter, store_up, users, refresh_tokens,
                         redis, now, uuids.tokens + 1)
        IN  /\ out.error = "" => uuids.tokens < max_tokens
            /\ \A u \in UserIds : FailedCount(out.redis, u) <= max_failed
            /\ Commit(out)
            /\ uuids' = IF out.error = "" THEN [uuids EXCEPT !.tokens = @ + 1] ELSE uuids
            /\ last' = [Call("login", email, password, NoToken, 0, out)
                          EXCEPT !.store_up = store_up]
            /\ UNCHANGED <<now, ticks, inflight>>

Refresh(tokens, max_tokens) ==
    \E token \in tokens :
        LET out == refresh_access_token(token, users, refresh_tokens, redis, now,
                                        uuids.tokens + 1)
        IN  /\ out.error = "" => uuids.tokens < max_tokens
            /\ Commit(out)
            /\ uuids' = IF out.error = "" THEN [uuids EXCEPT !.tokens = @ + 1] ELSE uuids
            /\ last' = Call("refresh", <<>>, <<>>, token, 0, out)
            /\ UNCHANGED <<now, ticks, inflight>>

GetUserIdFromToken(tokens) ==
    \E token \in tokens :
        LET got == get_user_id_from_token(token, now)
        IN  /\ last' = [NoCall EXCEPT !.op = "get_user_id_from_token", !.token = token,
                                      !.error = got.error, !.text = got.text,
                                      !.user_id = got.user_id]
            /\ UNCHANGED <<now, ticks, users, refresh_tokens, uuids, redis, inflight, issued>>

ChangePassword(passwords, new_passwords) ==
    \E user_id \in UserIds, current_password \in passwords,
       new_password \in new_passwords :
        LET out == change_password(user_id, current_password, new_password, users,
                                   refresh_tokens, redis, now)
        IN  /\ Commit(out)
            /\ last' = [Call("change_password", <<>>, current_password, NoToken,
                             user_id, out) EXCEPT !.new_password = new_password]
            /\ UNCHANGED <<now, ticks, uuids, inflight>>

UpdateProfile(names) ==
    \E user_id \in UserIds, full_name \in names :
        LET out == update_profile(user_id, full_name, users, refresh_tokens, redis, now)
        IN  /\ Commit(out)
            /\ last' = [Call("update_profile", <<>>, <<>>, NoToken, user_id, out)
                          EXCEPT !.full_name = full_name]
            /\ UNCHANGED <<now, ticks, uuids, inflight>>

DeleteAccount ==
    \E user_id \in UserIds :
        LET out == delete_account(user_id, users, refresh_tokens, redis)
        IN  /\ Commit(out)
            /\ last' = Call("delete_account", <<>>, <<>>, NoToken, user_id, out)
            /\ UNCHANGED <<now, ticks, uuids, inflight>>

(***************************************************************************)
(* Requests in progress.  A request runs in its own database session       *)
(* (get_db): its statements are flushed one by one and become visible to   *)
(* others when the session commits.  Under PostgreSQL (read committed) a   *)
(* statement reads the committed rows plus the session's own writes, an    *)
(* updated or deleted row stays locked until the session ends, an insert   *)
(* into refresh_tokens holds a key-share lock on the users row it          *)
(* references, and a statement that needs a locked row waits.              *)
(***************************************************************************)
NoWrites == [revoked |-> {}, inserted |-> {}, deleted_tokens |-> {}, deleted_users |-> {}]

\* The tables as a session with writes w sees them, which is also what its
\* commit leaves.  Deleting a users row removes the user's refresh tokens
\* (ORM cascade and ON DELETE CASCADE).
ViewUsers(w) == {u \in users : u.id \notin w.deleted_users}

ViewTokens(w) ==
    {IF r.id \in w.revoked THEN [r EXCEPT !.revoked = TRUE] ELSE r :
        r \in {x \in refresh_tokens \cup w.inserted :
                  x.id \notin w.deleted_tokens /\ x.user_id \notin w.deleted_users}}

Request(operation, pc, token, user_id) ==
    [op |-> operation, pc |-> pc, token |-> token, user_id |-> user_id,
     writes |-> NoWrites, access_token |-> NoToken, refresh_token |-> NoToken]

Others(i) == {inflight[j].writes : j \in DOMAIN inflight \ {i}}

\* Token rows (by id) some other session has locked.
LockedTokens(i) ==
    UNION {w.revoked \cup w.deleted_tokens \cup {r.id : r \in w.inserted} : w \in Others(i)}

\* An insert waits for a session that has deleted the referenced user, that
\* has inserted the same token_hash, or that holds a row with that token_hash.
InsertWaits(i, row) ==
    \/ \E w \in Others(i) : row.user_id \in w.deleted_users
    \/ \E w \in Others(i) : \E r \in w.inserted : r.token_hash = row.token_hash
    \/ \E r \in refresh_tokens : r.token_hash = row.token_hash /\ r.id \in LockedTokens(i)

\* Deleting a users row waits for a session that has inserted a token
\* referencing it or that is deleting it too.
DeleteWaits(i, user_id) ==
    \E w \in Others(i) :
        user_id \in w.deleted_users \/ \E r \in w.inserted : r.user_id = user_id

FreeSlots == (1..MaxInflight) \ DOMAIN inflight

Start(request) ==
    LET i == CHOOSE k \in FreeSlots : \A j \in FreeSlots : k <= j
    IN  inflight' = [k \in DOMAIN inflight \cup {i} |->
                       IF k = i THEN request ELSE inflight[k]]

Finish(i) == inflight' = [k \in DOMAIN inflight \ {i} |-> inflight[k]]

Proceed(i, request) == inflight' = [inflight EXCEPT ![i] = request]

\* refresh_access_token, statement by statement.
BeginRefresh(tokens) ==
    \E token \in tokens :
        LET payload == verify_token(token, "refresh", now)
            failed == Outcome("refresh", payload.error, payload.text, 0, users,
                              refresh_tokens, redis, NoToken, NoToken)
        IN  /\ FreeSlots # {}
            /\ IF payload.error # ""
               THEN /\ last' = Call("refresh", <<>>, <<>>, token, 0, failed)
                    /\ UNCHANGED inflight
               ELSE /\ Start(Request("refresh", "revoke_by_token_hash", token, payload.sub))
                    /\ UNCHANGED last
            /\ UNCHANGED <<now, ticks, users, refresh_tokens, uuids, redis, issued>>

RefreshRevoke ==
    \E i \in DOMAIN inflight :
        LET q == inflight[i]
            hit == {r.id : r \in {x \in ViewTokens(q.writes) :
                                     x.token_hash = sha256(q.token)}}
        IN  /\ q.op = "refresh" /\ q.pc = "revoke_by_token_hash"
            /\ hit \cap LockedTokens(i) = {}
            /\ Proceed(i, [q EXCEPT !.pc = "create",
                                    !.writes.revoked = @ \cup hit])
            /\ UNCHANGED <<now, ticks, users, refresh_tokens, uuids, redis, issued, last>>

RefreshCreate(max_tokens) ==
    \E i \in DOMAIN inflight :
        LET q == inflight[i]
            access_token == create_access_token(q.user_id, now)
            refresh_token == create_refresh_token(q.user_id, now)
            row == RefreshToken(uuids.tokens + 1, q.user_id, sha256(refresh_token),
                                now + refresh_token_expire_days * 86400)
            created == token_create(ViewTokens(q.writes), ViewUsers(q.writes), row)
            failed == Outcome("refresh", created.error, created.text, 0, users,
                              refresh_tokens, redis, NoToken, NoToken)
        IN  /\ q.op = "refresh" /\ q.pc = "create"
            /\ ~InsertWaits(i, row)
            /\ IF created.error # ""
               THEN /\ Finish(i)
                    /\ last' = Call("refresh", <<>>, <<>>, q.token, 0, failed)
                    /\ UNCHANGED uuids
               ELSE /\ uuids.tokens < max_tokens
                    /\ Proceed(i, [q EXCEPT !.pc = "commit",
                                            !.writes.inserted = @ \cup {row},
                                            !.access_token = access_token,
                                            !.refresh_token = refresh_token])
                    /\ uuids' = [uuids EXCEPT !.tokens = @ + 1]
                    /\ UNCHANGED last
            /\ UNCHANGED <<now, ticks, users, refresh_tokens, redis, issued>>

\* delete_account, statement by statement.
BeginDelete ==
    \E user_id \in UserIds :
        LET failed == Outcome("delete_account", "ValidationError", "User not found", 0,
                              users, refresh_tokens, redis, NoToken, NoToken)
        IN  /\ FreeSlots # {}
            /\ IF get_by_id(users, user_id) = {}
               THEN /\ last' = Call("delete_account", <<>>, <<>>, NoToken, user_id, failed)
                    /\ UNCHANGED inflight
               ELSE /\ Start(Request("delete_account", "revoke_by_user_id", NoToken, user_id))
                    /\ UNCHANGED last
            /\ UNCHANGED <<now, ticks, users, refresh_tokens, uuids, redis, issued>>

DeleteRevoke ==
    \E i \in DOMAIN inflight :
        LET q == inflight[i]
            hit == {r.id : r \in {x \in ViewTokens(q.writes) : x.user_id = q.user_id}}
        IN  /\ q.op = "delete_account" /\ q.pc = "revoke_by_user_id"
            /\ hit \cap LockedTokens(i) = {}
            /\ Proceed(i, [q EXCEPT !.pc = "delete",
                                    !.writes.revoked = @ \cup hit])
            /\ UNCHANGED <<now, ticks, users, refresh_tokens, uuids, redis, issued, last>>

DeleteUserRow ==
    \E i \in DOMAIN inflight :
        LET q == inflight[i]
            children == {r.id : r \in {x \in ViewTokens(q.writes) : x.user_id = q.user_id}}
        IN  /\ q.op = "delete_account" /\ q.pc = "delete"
            /\ ~DeleteWaits(i, q.user_id)
            /\ children \cap LockedTokens(i) = {}
            /\ Proceed(i, IF get_by_id(ViewUsers(q.writes), q.user_id) = {}
                          THEN [q EXCEPT !.pc = "commit"]
                          ELSE [q EXCEPT !.pc = "commit",
                                         !.writes.deleted_tokens = @ \cup children,
                                         !.writes.deleted_users = @ \cup {q.user_id}])
            /\ UNCHANGED <<now, ticks, users, refresh_tokens, uuids, redis, issued, last>>

\* get_db: the request is over, its session commits, the caller gets the result.
CommitRequest ==
    \E i \in DOMAIN inflight :
        LET q == inflight[i]
            out == Outcome(q.op, "", "", 0, ViewUsers(q.writes), ViewTokens(q.writes),
                           redis, q.access_token, q.refresh_token)
        IN  /\ q.pc = "commit"
            /\ Commit(out)
            /\ Finish(i)
            /\ last' = Call(q.op, <<>>, <<>>, q.token, q.user_id, out)
            /\ UNCHANGED <<now, ticks, uuids>>

\* login, await by await.  The request carries the user row it read, the
\* password it was given and the count record_failed_login got from INCR.
LoginRequest(email, password, user) ==
    [op |-> "login", pc |-> "is_account_locked", token |-> NoToken, user_id |-> user.id,
     writes |-> NoWrites, access_token |-> NoToken, refresh_token |-> NoToken,
     email |-> email, password |-> password, user |-> user, failed_count |-> 0]

\* What a login in progress answers when it raises.
LoginFails(q, text, minutes) ==
    Call("login", q.email, q.password, NoToken, 0,
         Outcome("login", "AuthenticationError", text, minutes, users, refresh_tokens,
                 redis, NoToken, NoToken))

BeginLogin(emails, passwords) ==
    \E email \in emails, password \in passwords :
        LET found == get_by_email(users, email)
            user == CHOOSE u \in found : TRUE
            failed == Outcome("login", "AuthenticationError", InvalidCredentials, 0,
                              users, refresh_tokens, redis, NoToken, NoToken)
        IN  /\ FreeSlots # {}
            /\ IF found = {}
               THEN /\ last' = Call("login", email, password, NoToken, 0, failed)
                    /\ UNCHANGED inflight
               ELSE /\ Start(LoginRequest(email, password, user))
                    /\ UNCHANGED last
            /\ UNCHANGED <<now, ticks, users, refresh_tokens, uuids, redis, issued>>

\* is_account_locked (TTL), then the password check up to the next await.
LoginIsLocked ==
    \E i \in DOMAIN inflight :
        LET q == inflight[i]
            locked == is_account_locked(redis, q.user_id, now)
        IN  /\ q.op = "login" /\ q.pc = "is_account_locked"
            /\ IF rate_limiter /\ locked.is_locked
                 THEN /\ Finish(i)
                      /\ last' = LoginFails(q, LockedRetryIn, locked.remaining \div 60)
               ELSE IF ~verify_password(q.password, q.user.password_hash)
                 THEN /\ Proceed(i, [q EXCEPT !.pc = "incr"])
                      /\ UNCHANGED last
               ELSE IF ~can_authenticate(q.user)
                 THEN /\ Finish(i)
                      /\ last' = LoginFails(q, "Account is not active", 0)
               ELSE /\ Proceed(i, [q EXCEPT !.pc = "reset_failed_login"])
                    /\ UNCHANGED last
            /\ UNCHANGED <<now, ticks, users, refresh_tokens, uuids, redis, issued>>

\* record_failed_login: INCR.
LoginIncr(max_failed) ==
    \E i \in DOMAIN inflight :
        LET q == inflight[i]
            r1 == redis_incr(redis, FailedLoginKey(q.user_id), now)
        IN  /\ q.op = "login" /\ q.pc = "incr"
            /\ r1[FailedLoginKey(q.user_id)].value <= max_failed
            /\ redis' = r1
            /\ Proceed(i, [q EXCEPT !.pc = "expire",
                                    !.failed_count = r1[FailedLoginKey(q.user_id)].value])
            /\ UNCHANGED <<now, ticks, users, refresh_tokens, uuids, issued, last>>

\* record_failed_login: EXPIRE, then the comparison with the threshold.
LoginExpire ==
    \E i \in DOMAIN inflight :
        LET q == inflight[i]
            should_lock == q.failed_count >= FAILED_LOGIN_THRESHOLD
        IN  /\ q.op = "login" /\ q.pc = "expire"
            /\ redis' = redis_expire(redis, FailedLoginKey(q.user_id), FAILED_LOGIN_TTL, now)
            /\ IF should_lock
               THEN /\ Proceed(i, [q EXCEPT !.pc = "setex"])
                    /\ UNCHANGED last
               ELSE /\ Finish(i)
                    /\ last' = LoginFails(q, InvalidCredentials, 0)
            /\ UNCHANGED <<now, ticks, users, refresh_tokens, uuids, issued>>

\* record_failed_login: SETEX of the lockout flag; login raises the lockout.
LoginSetex ==
    \E i \in DOMAIN inflight :
        LET q == inflight[i]
        IN  /\ q.op = "login" /\ q.pc = "setex"
            /\ redis' = redis_setex(redis, LockoutKey(q.user_id),
                                    ACCOUNT_LOCKOUT_MINUTES * 60, "locked", now)
            /\ Finish(i)
            /\ last' = LoginFails(q, LockedRetryFixed, ACCOUNT_LOCKOUT_MINUTES)
            /\ UNCHANGED <<now, ticks, users, refresh_tokens, uuids, issued>>

\* reset_failed_login after the password verified.
LoginReset ==
    \E i \in DOMAIN inflight :
        LET q == inflight[i]
        IN  /\ q.op = "login" /\ q.pc = "reset_failed_login"
            /\ redis' = reset_failed_login(redis, q.user_id)
            /\ Proceed(i, [q EXCEPT !.pc = "create"])
            /\ UNCHANGED <<now, ticks, users, refresh_tokens, uuids, issued, last>>

\* Mint the pair and insert the refresh-token row.
LoginCreate(max_tokens) ==
    \E i \in DOMAIN inflight :
        LET q == inflight[i]
            access_token == create_access_token(q.user_id, now)
            refresh_token == create_refresh_token(q.user_id, now)
            row == RefreshToken(uuids.tokens + 1, q.user_id, sha256(refresh_token),
                                now + refresh_token_expire_days * 86400)
            created == token_create(ViewTokens(q.writes), ViewUsers(q.writes), row)
            failed == Outcome("login", created.error, created.text, 0, users,
                              refresh_tokens, redis, NoToken, NoToken)
        IN  /\ q.op = "login" /\ q.pc = "create"
            /\ ~InsertWaits(i, row)
            /\ IF created.error # ""
               THEN /\ Finish(i)
                    /\ last' = Call("login", q.email, q.password, NoToken, 0, failed)
                    /\ UNCHANGED uuids
               ELSE /\ uuids.tokens < max_tokens
                    /\ Proceed(i, [q EXCEPT !.pc = "commit",
                                            !.writes.inserted = @ \cup {row},
                                            !.access_token = access_token,
                                            !.refresh_token = refresh_token])
                    /\ uuids' = [uuids EXCEPT !.tokens = @ + 1]
                    /\ UNCHANGED last
            /\ UNCHANGED <<now, ticks, users, refresh_tokens, redis, issued>>

\* verify_token on a token string of any origin.
VerifyToken(tokens, kinds) ==
    \E token \in tokens, token_type \in kinds :
        /\ last' = [op |-> "verify_token", token |-> token, token_type |-> token_type,
                    payload |-> verify_token(token, token_type, now)]
        /\ UNCHANGED <<now, ticks, users, refresh_tokens, uuids, redis, inflight, issued>>

\* The repository of refresh tokens, one call per step, each in a session
\* that commits.
TokenCreate(user_ids, hashes, max_tokens) ==
    \E user_id \in user_ids, token_hash \in hashes :
        LET row == RefreshToken(uuids.tokens + 1, user_id, token_hash,
                                now + refresh_token_expire_days * 86400)
            created == token_create(refresh_tokens, users, row)
        IN  /\ created.error = "" => uuids.tokens < max_tokens
            /\ refresh_tokens' = created.tokens
            /\ uuids' = IF created.error = "" THEN [uuids EXCEPT !.tokens = @ + 1]
                        ELSE uuids
            /\ last' = [op |-> "create", token_hash |-> token_hash, user_id |-> user_id,
                        error |-> created.error, text |-> created.text]
            /\ UNCHANGED <<now, ticks, users, redis, inflight, issued>>

GetByTokenHash(hashes) ==
    \E token_hash \in hashes :
        /\ last' = [op |-> "get_by_token_hash", token_hash |-> token_hash,
                    found |-> get_by_token_hash(refresh_tokens, token_hash, now)]
        /\ UNCHANGED <<now, ticks, users, refresh_tokens, uuids, redis, inflight, issued>>

RevokeByTokenHash(hashes) ==
    \E token_hash \in hashes :
        /\ refresh_tokens' = revoke_by_token_hash(refresh_tokens, token_hash)
        /\ last' = [op |-> "revoke_by_token_hash", token_hash |-> token_hash,
                    error |-> "", changed |-> refresh_tokens' # refresh_tokens]
        /\ UNCHANGED <<now, ticks, users, uuids, redis, inflight, issued>>

RevokeByUserId(user_ids) ==
    \E user_id \in user_ids :
        /\ refresh_tokens' = revoke_by_user_id(refresh_tokens, user_id)
        /\ last' = [op |-> "revoke_by_user_id", user_id |-> user_id,
                    error |-> "", changed |-> refresh_tokens' # refresh_tokens]
        /\ UNCHANGED <<now, ticks, users, uuids, redis, inflight, issued>>

\* The four named limits: which check the endpoint calls, on which key, and
\* with which limit.
LimitNames == {"login", "register", "refresh", "password_change"}

RateKey(name, id) == Key("auth:" \o name, id)

RateLimitOf(name) ==
    CASE name = "login" -> LOGIN_ATTEMPTS_PER_MINUTE
      [] name = "register" -> REGISTER_ATTEMPTS_PER_MINUTE
      [] name = "refresh" -> REFRESH_TOKEN_ATTEMPTS_PER_MINUTE
      [] name = "password_change" -> PASSWORD_CHANGE_ATTEMPTS_PER_MINUTE

check_rate_limit(name, r, id, t, store_up) ==
    CASE name = "login" -> check_login_rate_limit(r, id, t, store_up)
      [] name = "register" -> check_register_rate_limit(r, id, t, store_up)
      [] name = "refresh" -> check_refresh_rate_limit(r, id, t, store_up)
      [] name = "password_change" -> check_password_change_rate_limit(r, id, t, store_up)

CheckRateLimit(names, ids, ups) ==
    \E name \in names, id \in ids, store_up \in ups :
        LET out == check_rate_limit(name, redis, id, now, store_up)
        IN  /\ redis' = out.redis
            /\ last' = [op |-> "check_rate_limit", name |-> name, id |-> id,
                        store_up |-> store_up, error |-> out.error,
                        is_allowed |-> out.is_allowed,
                        remaining |-> out.remaining, reset_time |-> out.reset_time]
            /\ UNCHANGED <<now, ticks, users, refresh_tokens, uuids, inflight, issued>>

(***************************************************************************)
(* Observers.  They record, beside a step, what the properties below speak *)
(* about.  An observer never changes what a step does to the program's     *)
(* state; RateSpec alone reads the notes, to stop a run that has already   *)
(* filled its window (RateExplored).                                       *)
(***************************************************************************)
\* Refresh tokens a successful refresh has consumed, and refresh tokens that
\* were issued to a user before a successful password change.
TrackSessions ==
    obs' = IF last'.op = "refresh" /\ last'.error = "" /\ ticks' = ticks
             THEN [obs EXCEPT !.rotated = @ \cup {last'.token}]
           ELSE IF last'.op = "change_password" /\ last'.error = "" /\ ticks' = ticks
             THEN [obs EXCEPT !.stale = @ \cup {t \in issued : t.type = "refresh"
                                                              /\ t.sub = last'.user_id}]
           ELSE obs

NoStreak ==
    [k |-> 0, within |-> TRUE, last_at |-> 0, since_clear |-> 0, cleared |-> FALSE]

\* Per user: k, the run of wrong-password logins since the last login that
\* passed the password check of the unlocked account (the point where login
\* resets the counter); within, whether each of them came within the counter's
\* lifetime of the one before; since_clear, the failures recorded since the
\* user was last Clear; cleared, whether a successful login has ever removed a
\* counter that was not zero.
StreakAfter(s, wrong, recorded, reset, ok, t, count) ==
    IF wrong
      THEN [k |-> Min(s.k + 1, FAILED_LOGIN_THRESHOLD + 1),
            within |-> s.within /\ (s.k = 0 \/ t <= s.last_at + FAILED_LOGIN_TTL),
            last_at |-> t,
            since_clear |-> IF recorded THEN s.since_clear + 1 ELSE s.since_clear,
            cleared |-> s.cleared]
    ELSE IF reset
      THEN [NoStreak EXCEPT !.cleared = s.cleared \/ (ok /\ count > 0)]
    ELSE s

TrackStreaks ==
    obs' = [obs EXCEPT !.streak =
      [u \in 1..uuids'.users |->
         LET s == IF u \in DOMAIN obs.streak THEN obs.streak[u] ELSE NoStreak
             mine == {x \in users : x.id = u /\ x.email = last'.email}
             wrong == \E x \in mine : ~verify_password(last'.password, x.password_hash)
         IN  IF ticks' # ticks
               THEN IF LockoutKey(u) \in DOMAIN redis /\ LockoutKey(u) \notin DOMAIN redis'
                    THEN [s EXCEPT !.since_clear = 0] ELSE s
             ELSE IF last'.op = "login" /\ mine # {}
               THEN StreakAfter(s, wrong, redis' # redis,
                      ~wrong /\ last'.text \notin {LockedRetryIn, "Account is not active"},
                      last'.error = "", now, FailedCount(redis, u))
             ELSE s]]

\* Per rate-limit key: the clock values of the calls that reached the store
\* and are less than a window old, in call order.
InWindow(hits, t) == SelectSeq(hits, LAMBDA h : t - h < RATE_WINDOW_SECONDS)

HitsOn(key) == IF key \in DOMAIN obs.hits THEN obs.hits[key] ELSE <<>>

TrackHits ==
    obs' = IF ticks' = ticks /\ last'.op = "check_rate_limit" /\ last'.store_up
           THEN LET key == RateKey(last'.name, last'.id)
                    mine == Append(InWindow(HitsOn(key), now), now)
                IN  [obs EXCEPT !.hits = [k \in DOMAIN @ \cup {key} |->
                                            IF k = key THEN mine ELSE @[k]]]
           ELSE obs

\* overlapped: the refresh requests in progress whose user a committed
\* delete_account has removed meanwhile; raced: whether the call in `last` was
\* such a request.
TrackRaces ==
    LET done == DOMAIN inflight \ DOMAIN inflight'
        gone == {u.id : u \in users} \ {u.id : u \in users'}
        hit == {j \in DOMAIN inflight' : inflight'[j].op = "refresh"
                                          /\ inflight'[j].user_id \in gone}
    IN  obs' = [obs EXCEPT !.overlapped = (@ \ done) \cup hit,
                           !.raced = IF done # {} THEN done \cap obs.overlapped # {}
                                     ELSE IF last' # last THEN FALSE
                                     ELSE @]

(***************************************************************************)
(* Spec: the session flows (tokens, passwords, accounts).                  *)
(***************************************************************************)
SessionSteps == {1, access_token_expire_minutes * 60}

Next ==
    \/ Tick(SessionSteps, MaxTicks) /\ TrackSessions /\ UNCHANGED l1_cache
    \/ Register({EmailA}, {Password1}, Names) /\ TrackSessions /\ UNCHANGED l1_cache
    \/ Login({EmailA}, Passwords, {TRUE}, MaxTokens, MaxFailedLogins)
         /\ TrackSessions /\ UNCHANGED l1_cache
    \/ Refresh(Presentable, MaxTokens) /\ TrackSessions /\ UNCHANGED l1_cache
    \/ GetUserIdFromToken(Presentable) /\ TrackSessions /\ UNCHANGED l1_cache
    \/ ChangePassword(Passwords, {Password2, PasswordShort})
         /\ TrackSessions /\ UNCHANGED l1_cache

Spec == Init /\ [][Next]_vars

(***************************************************************************)
(* LockSpec: failed logins and account lockout.                            *)
(***************************************************************************)
LockSteps == {1, ACCOUNT_LOCKOUT_MINUTES * 60, FAILED_LOGIN_TTL}

LockNext ==
    \/ Tick(LockSteps, MaxTicks) /\ TrackStreaks /\ UNCHANGED l1_cache
    \/ Register({EmailA}, {Password1}, Names) /\ TrackStreaks /\ UNCHANGED l1_cache
    \/ Login(Emails, Passwords, {TRUE}, MaxLockTokens,
             FAILED_LOGIN_THRESHOLD + MaxTicks) /\ TrackStreaks /\ UNCHANGED l1_cache

LockSpec == Init /\ [][LockNext]_vars

(***************************************************************************)
(* RateSpec: the sliding-window limits.  A behaviour exercises one named   *)
(* limit for one client; the keys of different limits and clients are      *)
(* different Redis keys.  A call is explored while it is at most the       *)
(* (limit+1)-th of its window and while at most 1 + MaxRepeats calls have  *)
(* read the same clock value.                                              *)
(***************************************************************************)
RateSteps == {1, RATE_WINDOW_SECONDS}

Clients == {1}

RateInit ==
    /\ now = 0
    /\ ticks = 0
    /\ users = {}
    /\ refresh_tokens = {}
    /\ uuids = [users |-> 0, tokens |-> 0]
    /\ redis = <<>>
    /\ issued = {}
    /\ inflight = <<>>
    /\ l1_cache = <<>>
    /\ last = NoCall
    /\ \E name \in LimitNames : obs = [NoNotes EXCEPT !.limit = name]

RateExplored ==
    \A id \in Clients :
        LET hits == HitsOn(RateKey(obs.limit, id))
        IN  /\ Len(InWindow(hits, now)) <= RateLimitOf(obs.limit)
            /\ Cardinality({i \in DOMAIN hits : hits[i] = now}) <= MaxRepeats

RateNext ==
    \/ Tick(RateSteps, MaxRateTicks) /\ TrackHits /\ UNCHANGED l1_cache
    \/ RateExplored /\ CheckRateLimit({obs.limit}, Clients, BOOLEAN)
         /\ TrackHits /\ UNCHANGED l1_cache

RateSpec == RateInit /\ [][RateNext]_vars

(***************************************************************************)
(* FloodSpec: as RateSpec, for a client that goes on calling after it has  *)
(* been denied: a call is explored while it is at most the (limit+2)-th of *)
(* its window, each call at a clock value of its own.                      *)
(***************************************************************************)
FloodExplored ==
    \A id \in Clients :
        LET hits == HitsOn(RateKey(obs.limit, id))
        IN  /\ Len(InWindow(hits, now)) <= RateLimitOf(obs.limit) + 1
            /\ \A i \in DOMAIN hits : hits[i] # now

FloodNext ==
    \/ Tick({1}, MaxRateTicks) /\ TrackHits /\ UNCHANGED l1_cache
    \/ FloodExplored /\ CheckRateLimit({obs.limit}, Clients, BOOLEAN)
         /\ TrackHits /\ UNCHANGED l1_cache

FloodSpec == RateInit /\ [][FloodNext]_vars

\* Concurrent checks on one key: a call reads time.time(), builds the
\* pipeline and awaits its execution; the store executes the pipelines one at
\* a time, in any order and at any later time.
CheckRequest(name, id, t) ==
    [op |-> "check_rate_limit", pc |-> "execute", name |-> name, id |-> id, t |-> t]

BeginCheck(names, ids) ==
    \E name \in names, id \in ids :
        /\ FreeSlots # {}
        /\ Start(CheckRequest(name, id, now))
        /\ UNCHANGED <<now, ticks, users, refresh_tokens, uuids, redis, issued, last>>

ExecutePipeline ==
    \E i \in DOMAIN inflight :
        LET q == inflight[i]
            out == _check_rate_limit_at(redis, RateKey(q.name, q.id), RateLimitOf(q.name),
                                        RATE_WINDOW_SECONDS, q.t, now, TRUE)
        IN  /\ q.op = "check_rate_limit" /\ q.pc = "execute"
            /\ redis' = out.redis
            /\ Finish(i)
            /\ last' = [op |-> "check_rate_limit", name |-> q.name, id |-> q.id,
                        store_up |-> TRUE, error |-> out.error,
                        is_allowed |-> out.is_allowed, remaining |-> out.remaining,
                        reset_time |-> out.reset_time, t |-> q.t]
            /\ UNCHANGED <<now, ticks, users, refresh_tokens, uuids, issued>>

\* hits: per key, the time.time() values of the calls that were allowed.
TrackAllowed ==
    obs' = IF DOMAIN inflight' # DOMAIN inflight /\ DOMAIN inflight' \subseteq DOMAIN inflight
              /\ last'.is_allowed
           THEN LET key == RateKey(last'.name, last'.id)
                IN  [obs EXCEPT !.hits = [k \in DOMAIN @ \cup {key} |->
                                            IF k = key THEN Append(HitsOn(key), last'.t)
                                            ELSE @[k]]]
           ELSE obs

\* Calls are explored until one more than the limit was allowed on a key.
PipeExplored ==
    \A id \in Clients : Len(HitsOn(RateKey(obs.limit, id))) <= RateLimitOf(obs.limit)

PipeInit == RateInit /\ obs.limit = "register"

PipeNext ==
    \/ Tick({1}, MaxRateTicks) /\ TrackAllowed /\ UNCHANGED l1_cache
    \/ PipeExplored /\ BeginCheck({obs.limit}, Clients) /\ TrackAllowed
         /\ UNCHANGED l1_cache
    \/ ExecutePipeline /\ TrackAllowed /\ UNCHANGED l1_cache

PipeSpec == PipeInit /\ [][PipeNext]_vars

(***************************************************************************)
(* ConcSpec: delete_account and refresh_access_token as concurrent         *)
(* requests of a registered user, whose logins run while no request is in  *)
(* progress.                                                               *)
(***************************************************************************)
Idle == inflight = <<>>

\* The state after register(EmailA, Password1, NamePadded) on empty tables.
ConcInit ==
    LET out == register(EmailA, Password1, NamePadded, {}, {}, <<>>, 0, 1)
    IN  /\ now = 0
        /\ ticks = 0
        /\ users = out.users
        /\ refresh_tokens = out.refresh_tokens
        /\ uuids = [users |-> 1, tokens |-> 0]
        /\ redis = out.redis
        /\ issued = {}
        /\ inflight = <<>>
        /\ l1_cache = <<>>
        /\ last = NoCall
        /\ obs = NoNotes

ConcNext ==
    \/ Tick({1}, MaxConcTicks) /\ TrackRaces /\ UNCHANGED l1_cache
    \/ Idle /\ Login({EmailA}, {Password1}, {TRUE}, MaxTokens, MaxFailedLogins)
         /\ TrackRaces /\ UNCHANGED l1_cache
    \/ BeginRefresh({t \in issued : t.type = "refresh"}) /\ TrackRaces /\ UNCHANGED l1_cache
    \/ RefreshRevoke /\ TrackRaces /\ UNCHANGED l1_cache
    \/ RefreshCreate(MaxTokens) /\ TrackRaces /\ UNCHANGED l1_cache
    \/ BeginDelete /\ TrackRaces /\ UNCHANGED l1_cache
    \/ DeleteRevoke /\ TrackRaces /\ UNCHANGED l1_cache
    \/ DeleteUserRow /\ TrackRaces /\ UNCHANGED l1_cache
    \/ CommitRequest /\ TrackRaces /\ UNCHANGED l1_cache

ConcSpec == ConcInit /\ [][ConcNext]_vars

\* Two refresh_access_token requests presenting one token.  overlapped holds
\* the requests in progress that present a token for which another request
\* returned a pair meanwhile; raced tells whether the request that finished
\* last was one of them.
MaxTwinTicks == 2

TrackTwins ==
    LET done == DOMAIN inflight \ DOMAIN inflight'
        won == IF done # {} /\ last'.op = "refresh" /\ last'.error = ""
               THEN {j \in DOMAIN inflight' : /\ inflight'[j].op = "refresh"
                                              /\ inflight'[j].token = last'.token}
               ELSE {}
    IN  obs' = [obs EXCEPT !.overlapped = (@ \ done) \cup won,
                           !.raced = IF done # {} THEN done \cap obs.overlapped # {}
                                     ELSE IF last' # last THEN FALSE
                                     ELSE @]

TwinNext ==
    \/ Tick({1}, MaxTwinTicks) /\ TrackTwins /\ UNCHANGED l1_cache
    \/ Idle /\ Login({EmailA}, {Password1}, {TRUE}, MaxLockTokens, MaxFailedLogins)
         /\ TrackTwins /\ UNCHANGED l1_cache
    \/ BeginRefresh({t \in issued : t.type = "refresh"}) /\ TrackTwins
         /\ UNCHANGED l1_cache
    \/ RefreshRevoke /\ TrackTwins /\ UNCHANGED l1_cache
    \/ RefreshCreate(MaxTokens) /\ TrackTwins /\ UNCHANGED l1_cache
    \/ CommitRequest /\ TrackTwins /\ UNCHANGED l1_cache

TwinSpec == ConcInit /\ [][TwinNext]_vars

\* A user's is_active column is cleared from outside AuthService (no service
\* method writes it): UserRepository.update with is_active = False.
Deactivate ==
    \E u \in users :
        /\ u.is_active
        /\ users' = user_update(users, [u EXCEPT !.is_active = FALSE], now)
        /\ last' = [NoCall EXCEPT !.op = "deactivate", !.user_id = u.id]
        /\ UNCHANGED <<now, ticks, refresh_tokens, uuids, redis, issued, inflight>>

MaxInactiveTicks == 1

InactiveNext ==
    \/ Tick({1}, MaxInactiveTicks) /\ UNCHANGED <<l1_cache, obs>>
    \/ Login({EmailA}, Passwords, {TRUE}, MaxTokens, MaxFailedLogins)
         /\ UNCHANGED <<l1_cache, obs>>
    \/ Refresh({t \in issued : t.type = "refresh"}, MaxTokens)
         /\ UNCHANGED <<l1_cache, obs>>
    \/ Deactivate /\ UNCHANGED <<l1_cache, obs>>
    \/ DeleteAccount /\ UNCHANGED <<l1_cache, obs>>

InactiveSpec == ConcInit /\ [][InactiveNext]_vars

\* register, statement by statement: get_by_email and the validations, then
\* user_repo.create (INSERT at the flush), then the commit of the session.
RegisterRequest(email, password, full_name) ==
    [op |-> "register", pc |-> "create", email |-> email, password |-> password,
     full_name |-> full_name, writes |-> NoWrites, inserted_users |-> {}]

BeginRegister(emails, passwords, names) ==
    \E email \in emails, password \in passwords, full_name \in names :
        LET out == register(email, password, full_name, users, refresh_tokens, redis,
                            now, uuids.users + 1)
        IN  /\ FreeSlots # {}
            /\ IF out.error # ""
               THEN /\ last' = [Call("register", email, password, NoToken, 0, out)
                                  EXCEPT !.full_name = full_name]
                    /\ UNCHANGED inflight
               ELSE /\ Start(RegisterRequest(email, password, full_name))
                    /\ UNCHANGED last
            /\ UNCHANGED <<now, ticks, users, refresh_tokens, uuids, redis, issued>>

\* The INSERT waits for a session that has inserted the same email and has
\* not committed yet; against a committed row it fails on the unique index.
RegisterCreate(max_users) ==
    \E i \in DOMAIN inflight :
        LET q == inflight[i]
            row == User(uuids.users + 1, q.email, hash_password(q.password),
                        strip(q.full_name), now)
            created == user_create(users, row)
            failed == Outcome("register", created.error, created.text, 0, users,
                              refresh_tokens, redis, NoToken, NoToken)
        IN  /\ q.op = "register" /\ q.pc = "create"
            /\ ~\E j \in DOMAIN inflight \ {i} :
                   /\ inflight[j].op = "register"
                   /\ \E u \in inflight[j].inserted_users : u.email = q.email
            /\ IF created.error # ""
               THEN /\ Finish(i)
                    /\ last' = [Call("register", q.email, q.password, NoToken, 0, failed)
                                  EXCEPT !.full_name = q.full_name]
                    /\ UNCHANGED uuids
               ELSE /\ uuids.users < max_users
                    /\ Proceed(i, [q EXCEPT !.pc = "commit", !.inserted_users = {row}])
                    /\ uuids' = [uuids EXCEPT !.users = @ + 1]
                    /\ UNCHANGED last
            /\ UNCHANGED <<now, ticks, users, refresh_tokens, redis, issued>>

RegisterCommit ==
    \E i \in DOMAIN inflight :
        LET q == inflight[i]
            out == Outcome("register", "", "", 0, users \cup q.inserted_users,
                           refresh_tokens, redis, NoToken, NoToken)
        IN  /\ q.op = "register" /\ q.pc = "commit"
            /\ Commit(out)
            /\ Finish(i)
            /\ last' = [Call("register", q.email, q.password, NoToken, 0, out)
                          EXCEPT !.full_name = q.full_name]
            /\ UNCHANGED <<now, ticks, uuids>>

EnrolNext ==
    \/ Tick({1}, MaxConcTicks) /\ UNCHANGED <<l1_cache, obs>>
    \/ BeginRegister(Emails, {Password1, PasswordShort}, Names)
         /\ UNCHANGED <<l1_cache, obs>>
    \/ RegisterCreate(MaxUsers) /\ UNCHANGED <<l1_cache, obs>>
    \/ RegisterCommit /\ UNCHANGED <<l1_cache, obs>>

EnrolSpec == Init /\ [][EnrolNext]_vars

(***************************************************************************)
(* RaceSpec: logins of one registered user as concurrent requests, one     *)
(* step per await.  It starts where the user has already failed            *)
(* FAILED_LOGIN_THRESHOLD - 1 logins, one short of the lockout.            *)
(***************************************************************************)
RECURSIVE AfterWrongLogins(_, _)
AfterWrongLogins(us, n) ==
    IF n = 0 THEN <<>>
    ELSE login(EmailA, Password2, rate_limiter, TRUE, us, {},
               AfterWrongLogins(us, n - 1), 0, 1).redis

RaceInit ==
    LET out == register(EmailA, Password1, NamePadded, {}, {}, <<>>, 0, 1)
    IN  /\ now = 0
        /\ ticks = 0
        /\ users = out.users
        /\ refresh_tokens = out.refresh_tokens
        /\ uuids = [users |-> 1, tokens |-> 0]
        /\ redis = AfterWrongLogins(out.users, FAILED_LOGIN_THRESHOLD - 1)
        /\ issued = {}
        /\ inflight = <<>>
        /\ l1_cache = <<>>
        /\ last = NoCall
        /\ obs = NoNotes

RaceNext ==
    \/ Tick({1}, MaxConcTicks) /\ UNCHANGED <<l1_cache, obs>>
    \/ BeginLogin({EmailA}, Passwords) /\ UNCHANGED <<l1_cache, obs>>
    \/ LoginIsLocked /\ UNCHANGED <<l1_cache, obs>>
    \/ LoginIncr(FAILED_LOGIN_THRESHOLD + MaxInflight) /\ UNCHANGED <<l1_cache, obs>>
    \/ LoginExpire /\ UNCHANGED <<l1_cache, obs>>
    \/ LoginSetex /\ UNCHANGED <<l1_cache, obs>>
    \/ LoginReset /\ UNCHANGED <<l1_cache, obs>>
    \/ LoginCreate(MaxLockTokens) /\ UNCHANGED <<l1_cache, obs>>
    \/ CommitRequest /\ UNCHANGED <<l1_cache, obs>>

RaceSpec == RaceInit /\ [][RaceNext]_vars

\* The same logins with the answer of is_account_locked (TTL at the store)
\* and the password comparison that follows the await as two steps: other
\* requests run between the store's answer and the comparison.
LoginTtl ==
    \E i \in DOMAIN inflight :
        LET q == inflight[i]
            locked == is_account_locked(redis, q.user_id, now)
        IN  /\ q.op = "login" /\ q.pc = "is_account_locked"
            /\ IF rate_limiter /\ locked.is_locked
                 THEN /\ Finish(i)
                      /\ last' = LoginFails(q, LockedRetryIn, locked.remaining \div 60)
               ELSE /\ Proceed(i, [q EXCEPT !.pc = "verify_password"])
                    /\ UNCHANGED last
            /\ UNCHANGED <<now, ticks, users, refresh_tokens, uuids, redis, issued>>

LoginVerify ==
    \E i \in DOMAIN inflight :
        LET q == inflight[i]
        IN  /\ q.op = "login" /\ q.pc = "verify_password"
            /\ IF ~verify_password(q.password, q.user.password_hash)
                 THEN /\ Proceed(i, [q EXCEPT !.pc = "incr"])
                      /\ UNCHANGED last
               ELSE IF ~can_authenticate(q.user)
                 THEN /\ Finish(i)
                      /\ last' = LoginFails(q, "Account is not active", 0)
               ELSE /\ Proceed(i, [q EXCEPT !.pc = "reset_failed_login"])
                    /\ UNCHANGED last
            /\ UNCHANGED <<now, ticks, users, refresh_tokens, uuids, redis, issued>>

\* Notes on the lockout flag and the comparisons.  overlapped: the logins in
\* progress whose is_account_locked was answered while the flag was not set.
\* stale: the logins that were in progress when the flag was last set and
\* have not compared a password since.  streak: how many those were.  hits:
\* the times of the comparisons made since then.  raced: the last comparison
\* was made with the flag set.
Flagged(r, user_id, t) == Live(r, LockoutKey(user_id), t)

Passing ==
    {i \in DOMAIN inflight \cap DOMAIN inflight' :
        /\ inflight[i].op = "login" /\ inflight[i].pc = "is_account_locked"
        /\ inflight'[i].pc = "verify_password"}

Comparing ==
    {i \in DOMAIN inflight :
        /\ inflight[i].op = "login" /\ inflight[i].pc = "verify_password"
        /\ (i \notin DOMAIN inflight' \/ inflight'[i].pc # "verify_password")}

Locking == {id \in UserIds : ~Flagged(redis, id, now) /\ Flagged(redis', id, now')}

TrackGate ==
    LET done == DOMAIN inflight \ DOMAIN inflight'
        present == {i \in DOMAIN inflight' : /\ inflight'[i].op = "login"
                                             /\ inflight'[i].user_id \in Locking}
        late == {i \in Comparing : Flagged(redis, inflight[i].user_id, now)}
        keys == {LockoutKey(id) : id \in Locking}
                  \cup {LockoutKey(inflight[i].user_id) : i \in late}
    IN  obs' = [obs EXCEPT
                  !.overlapped = (@ \ done) \cup
                      {i \in Passing : ~Flagged(redis, inflight[i].user_id, now)},
                  !.stale = IF Locking # {} THEN present ELSE @ \ (done \cup Comparing),
                  !.streak = IF Locking # {} THEN <<Cardinality(present)>> ELSE @,
                  !.hits = [k \in DOMAIN @ \cup keys |->
                              IF \E id \in Locking : k = LockoutKey(id) THEN <<>>
                              ELSE IF k \in keys THEN Append(HitsOn(k), now)
                              ELSE @[k]],
                  !.raced = IF Comparing # {} THEN late # {}
                            ELSE IF last' # last THEN FALSE
                            ELSE @]

\* The logins race within one clock value; the flag lasts
\* ACCOUNT_LOCKOUT_MINUTES.
GateNext ==
    \/ BeginLogin({EmailA}, Passwords) /\ TrackGate /\ UNCHANGED l1_cache
    \/ LoginTtl /\ TrackGate /\ UNCHANGED l1_cache
    \/ LoginVerify /\ TrackGate /\ UNCHANGED l1_cache
    \/ LoginIncr(FAILED_LOGIN_THRESHOLD + MaxInflight) /\ TrackGate /\ UNCHANGED l1_cache
    \/ LoginExpire /\ TrackGate /\ UNCHANGED l1_cache
    \/ LoginSetex /\ TrackGate /\ UNCHANGED l1_cache
    \/ LoginReset /\ TrackGate /\ UNCHANGED l1_cache
    \/ LoginCreate(MaxLockTokens) /\ TrackGate /\ UNCHANGED l1_cache
    \/ CommitRequest /\ TrackGate /\ UNCHANGED l1_cache

GateSpec == RaceInit /\ [][GateNext]_vars

(***************************************************************************)
(* OutageSpec: logins while Redis may be unreachable for a call.           *)
(***************************************************************************)
OutageNext ==
    \/ Tick({1}, MaxTicks) /\ UNCHANGED <<l1_cache, obs>>
    \/ Register({EmailA}, {Password1}, Names) /\ UNCHANGED <<l1_cache, obs>>
    \/ Login(Emails, Passwords, BOOLEAN, MaxTokens, FAILED_LOGIN_THRESHOLD)
         /\ UNCHANGED <<l1_cache, obs>>

OutageSpec == Init /\ [][OutageNext]_vars

(***************************************************************************)
(* CodecSpec: verify_token on every token string a caller can send: any    *)
(* subset of the claims sub, exp, type and nbf, signed with the server's   *)
(* key or not.  A claim that is absent has no value (0 or "" here).        *)
(***************************************************************************)
Forgeable ==
    {tok \in [claims : SUBSET {"sub", "exp", "type", "nbf"},
              sub : 0..MaxUsers, exp : 0..MaxTicks, type : {"", "access", "refresh"},
              nbf : 0..MaxTicks, sig : {"valid", "tampered"}] :
        /\ tok.sub # 0 <=> "sub" \in tok.claims
        /\ tok.exp # 0 <=> "exp" \in tok.claims
        /\ tok.type # "" <=> "type" \in tok.claims
        /\ tok.nbf # 0 <=> "nbf" \in tok.claims}

CodecNext ==
    \/ Tick({1}, MaxTicks) /\ UNCHANGED <<l1_cache, obs>>
    \/ VerifyToken(Forgeable, {"access", "refresh"}) /\ UNCHANGED <<l1_cache, obs>>

CodecSpec == Init /\ [][CodecNext]_vars

(***************************************************************************)
(* RepoSpec: RefreshTokenRepositoryImpl on its own, over the rows of two   *)
(* registered users.  Digests and user ids are what a caller may pass:     *)
(* digests with and without a row, users with and without tokens.          *)
(***************************************************************************)
RepoInit ==
    LET first == register(EmailA, Password1, NamePadded, {}, {}, <<>>, 0, 1)
        second == register(EmailB, Password1, NamePadded, first.users, {}, <<>>, 0, 2)
    IN  /\ now = 0
        /\ ticks = 0
        /\ users = second.users
        /\ refresh_tokens = {}
        /\ uuids = [users |-> 2, tokens |-> 0]
        /\ redis = <<>>
        /\ issued = {}
        /\ inflight = <<>>
        /\ l1_cache = <<>>
        /\ last = NoCall
        /\ obs = NoNotes

RepoDigests == {sha256(create_refresh_token(u, 0)) : u \in 1..2}

RepoSteps == {1, refresh_token_expire_days * 86400}

RepoNext ==
    \/ Tick(RepoSteps, MaxTicks) /\ UNCHANGED <<l1_cache, obs>>
    \/ TokenCreate(1..2, RepoDigests, MaxTokens) /\ UNCHANGED <<l1_cache, obs>>
    \/ GetByTokenHash(RepoDigests) /\ UNCHANGED <<l1_cache, obs>>
    \/ RevokeByTokenHash(RepoDigests) /\ UNCHANGED <<l1_cache, obs>>
    \/ RevokeByUserId(1..3) /\ UNCHANGED <<l1_cache, obs>>

RepoSpec == RepoInit /\ [][RepoNext]_vars

(***************************************************************************)
(* AccountSpec: the six AuthService calls on every kind of input: emails   *)
(* with and without '@', short passwords, blank names, absent users,       *)
(* tokens that are not JWTs or whose signature does not match, and a Redis *)
(* that may be unreachable.                                                *)
(***************************************************************************)
\* One step of the clock takes every token issued before it past its expiry.
AccountSteps == {refresh_token_expire_days * 86400 + 1}

\* A string that is not a JWT.
NotAJwt == [NoToken EXCEPT !.sig = "malformed"]

\* The tokens a client was given with a byte of the payload changed: the
\* signature no longer matches.
Tampered(tokens) == {[tok EXCEPT !.sig = "tampered"] : tok \in tokens}

AccountNext ==
    \/ Tick(AccountSteps, MaxAccountTicks) /\ UNCHANGED <<l1_cache, obs>>
    \/ Register({EmailA, EmailNoAt}, {Password1, PasswordShort},
                {NamePadded, NameBlank}) /\ UNCHANGED <<l1_cache, obs>>
    \/ Login(Emails, Passwords, BOOLEAN, MaxAccountTokens, MaxFailedLogins)
         /\ UNCHANGED <<l1_cache, obs>>
    \/ Refresh(issued \cup Tampered(issued) \cup {NotAJwt}, MaxAccountTokens)
         /\ UNCHANGED <<l1_cache, obs>>
    \/ ChangePassword(Passwords, {Password1, Password2, PasswordShort})
         /\ UNCHANGED <<l1_cache, obs>>
    \/ UpdateProfile({NamePadded, NameBob, NameBlank, <<>>}) /\ UNCHANGED <<l1_cache, obs>>
    \/ DeleteAccount /\ UNCHANGED <<l1_cache, obs>>

AccountSpec == Init /\ [][AccountNext]_vars

(***************************************************************************)
(* Weather: WeatherCache (L1: a TTLCache in the process; L2: Redis) and    *)
(* WeatherService.  Coordinates are counted in thousandths of a degree and *)
(* cache keys in hundredths; temperatures and wind speeds are numbers the  *)
(* code only passes on.  L1 never holds L1_MAX_SIZE entries here, so no    *)
(* entry is evicted before it expires.                                     *)
(***************************************************************************)
WeatherData(latitude, longitude, temperature_c, wind_speed_kmh, retrieved_at) ==
    [latitude |-> latitude, longitude |-> longitude, temperature_c |-> temperature_c,
     wind_speed_kmh |-> wind_speed_kmh, retrieved_at |-> retrieved_at]

\* Python's None where a WeatherData is expected.
None == WeatherData(0, 0, 0, 0, 0 - 1)

\* f"{x:.2f}" of a coordinate: the nearest hundredth (no input lies half-way).
Format2f(x) == IF x >= 0 THEN (x + 5) \div 10 ELSE 0 - ((5 - x) \div 10)

_make_cache_key(latitude, longitude) ==
    Key(CACHE_KEY_PREFIX, <<Format2f(latitude), Format2f(longitude)>>)

\* TTLCache: an entry set at time t is there while the timer reads less than
\* t + ttl.
_get_from_l1(l1, key, t) ==
    IF key \in DOMAIN l1 /\ t < l1[key].expires THEN l1[key].value ELSE None

_set_in_l1(l1, key, data, t) ==
    [k \in DOMAIN l1 \cup {key} |->
        IF k = key THEN [value |-> data, expires |-> t + L1_TTL_SECONDS] ELSE l1[k]]

\* TTLCache.expire: the entries whose time has come are dropped.
expire(l1, t) == [k \in {x \in DOMAIN l1 : t < l1[x].expires} |-> l1[k]]

\* The string set stores in Redis: a JSON object of the five fields, the
\* time in ISO format.
isoformat(t) == [iso |-> t]

json_dumps(data) ==
    [text |-> "object",
     data |-> [data EXCEPT !.retrieved_at = isoformat(data.retrieved_at)]]

\* Strings under a weather key that are not what set writes: no JSON at all;
\* an object without retrieved_at; an object whose retrieved_at is no ISO
\* time; JSON that is not an object (null, a list, a number).
Undecodable == {"not json", "missing key", "bad date", "not an object"}

\* What json.loads, the five subscripts and datetime.fromisoformat make of a
\* cached string: the WeatherData, or the exception raised on the way.
decode(cached) ==
    CASE cached.text = "object" ->
           [error |-> "",
            data |-> [cached.data EXCEPT !.retrieved_at = cached.data.retrieved_at.iso]]
      [] cached.text = "not json" -> [error |-> "JSONDecodeError", data |-> None]
      [] cached.text = "missing key" -> [error |-> "KeyError", data |-> None]
      [] cached.text = "bad date" -> [error |-> "ValueError", data |-> None]
      [] cached.text = "not an object" -> [error |-> "TypeError", data |-> None]

\* What get returns (value), the label it counts (result), how often it read
\* and deleted the key in Redis, and the two tiers afterwards.
Got(value, result, reads, deletes, l1, r) ==
    [value |-> value, result |-> result, reads |-> reads, deletes |-> deletes,
     l1 |-> l1, redis |-> r]

\* get without the write to L1 after a hit in L2.
cache_get_leaving_l1(l1, r, latitude, longitude, store_up, t) ==
    LET key == _make_cache_key(latitude, longitude)
        l1_data == _get_from_l1(l1, key, t)
        decoded == decode(r[key].value)
    IN  IF l1_data # None THEN Got(l1_data, "l1_hit", 0, 0, l1, r)
        ELSE IF ~store_up THEN Got(None, "error", 1, 0, l1, r)
        ELSE IF ~Live(r, key, t) THEN Got(None, "miss", 1, 0, l1, r)
        ELSE IF decoded.error \in {"JSONDecodeError", "KeyError", "ValueError"}
          THEN Got(None, "error", 1, 1, l1, redis_delete(r, key))
        ELSE IF decoded.error # "" THEN Got(None, "error", 1, 0, l1, r)
        ELSE Got(decoded.data, "l2_hit", 1, 0, l1, r)

\* WeatherCache.get.  With Redis unreachable every command raises, the
\* delete in the handler included.
cache_get(l1, r, latitude, longitude, store_up, t) ==
    LET key == _make_cache_key(latitude, longitude)
        l1_data == _get_from_l1(l1, key, t)
        decoded == decode(r[key].value)
    IN  IF l1_data # None THEN Got(l1_data, "l1_hit", 0, 0, l1, r)
        ELSE IF ~store_up THEN Got(None, "error", 1, 0, l1, r)
        ELSE IF ~Live(r, key, t) THEN Got(None, "miss", 1, 0, l1, r)
        ELSE IF decoded.error \in {"JSONDecodeError", "KeyError", "ValueError"}
          THEN Got(None, "error", 1, 1, l1, redis_delete(r, key))
        ELSE IF decoded.error # "" THEN Got(None, "error", 1, 0, l1, r)
        ELSE Got(decoded.data, "l2_hit", 1, 0,
                 _set_in_l1(l1, key, decoded.data, t), r)

\* set writing L1 only once the write to Redis has succeeded.
cache_set_through_l2(l1, r, weather_data, store_up, t) ==
    LET key == _make_cache_key(weather_data.latitude, weather_data.longitude)
    IN  IF ~store_up THEN [returned |-> FALSE, result |-> "error", l1 |-> l1, redis |-> r]
        ELSE [returned |-> TRUE, result |-> "success",
              l1 |-> _set_in_l1(l1, key, weather_data, t),
              redis |-> redis_setex(r, key, weather_cache_ttl_seconds,
                                    json_dumps(weather_data), t)]

\* WeatherCache.set.
cache_set(l1, r, weather_data, store_up, t) ==
    LET key == _make_cache_key(weather_data.latitude, weather_data.longitude)
        written == _set_in_l1(l1, key, weather_data, t)
    IN  IF ~store_up
        THEN [returned |-> FALSE, result |-> "error", l1 |-> written, redis |-> r]
        ELSE [returned |-> TRUE, result |-> "success", l1 |-> written,
              redis |-> redis_setex(r, key, weather_cache_ttl_seconds,
                                    json_dumps(weather_data), t)]

\* OpenMeteoClient.get_current_weather.  The reply carries the coordinates of
\* the grid cell the upstream answered for ("grid"), or none, and then the
\* requested ones are used ("echo"); or the request fails.
GridCell(x) == (x \div 100) * 100

UpstreamKinds == {"echo", "grid", "timeout", "unavailable"}

upstream(latitude, longitude, kind, t) ==
    CASE kind = "echo" ->
           [error |-> "", data |-> WeatherData(latitude, longitude, 21, 7, t)]
      [] kind = "grid" ->
           [error |-> "",
            data |-> WeatherData(GridCell(latitude), GridCell(longitude), 21, 7, t)]
      [] kind = "timeout" -> [error |-> "WeatherAPITimeoutError", data |-> None]
      [] kind = "unavailable" -> [error |-> "WeatherAPIUnavailableError", data |-> None]

\* What WeatherService.get_current_weather returns or raises, with the
\* number of calls it made to the upstream client and to cache.set.
Served(error, data, from_cache, upstream_calls, set_calls, l1, r) ==
    [error |-> error, value |-> data, from_cache |-> from_cache,
     upstream_calls |-> upstream_calls, set_calls |-> set_calls,
     l1 |-> l1, redis |-> r]

\* get_current_weather failing when the cache could not store the result.
get_current_weather_needing_cache(latitude, longitude, l1, r, get_up, kind, set_up, t) ==
    LET cached == cache_get(l1, r, latitude, longitude, get_up, t)
        fetched == upstream(latitude, longitude, kind, t)
        stored == cache_set(cached.l1, cached.redis, fetched.data, set_up, t)
    IN  IF cached.value # None
          THEN Served("", cached.value, TRUE, 0, 0, cached.l1, cached.redis)
        ELSE IF fetched.error # ""
          THEN Served(fetched.error, None, FALSE, 1, 0, cached.l1, cached.redis)
        ELSE IF ~stored.returned
          THEN Served("ConnectionError", None, FALSE, 1, 1, stored.l1, stored.redis)
        ELSE Served("", fetched.data, FALSE, 1, 1, stored.l1, stored.redis)

get_current_weather(latitude, longitude, l1, r, get_up, kind, set_up, t) ==
    LET cached == cache_get(l1, r, latitude, longitude, get_up, t)
        fetched == upstream(latitude, longitude, kind, t)
        stored == cache_set(cached.l1, cached.redis, fetched.data, set_up, t)
    IN  IF cached.value # None
          THEN Served("", cached.value, TRUE, 0, 0, cached.l1, cached.redis)
        ELSE IF fetched.error # ""
          THEN Served(fetched.error, None, FALSE, 1, 0, cached.l1, cached.redis)
        ELSE Served("", fetched.data, FALSE, 1, 1, stored.l1, stored.redis)

(***************************************************************************)
(* WeatherSpec: the cache and the service for requests of one place, with  *)
(* a Redis that may be unreachable for a call and may hold strings under   *)
(* weather keys that set did not write.                                    *)
(***************************************************************************)
WeatherCall(operation, latitude, longitude, store_up) ==
    [op |-> operation, latitude |-> latitude, longitude |-> longitude,
     store_up |-> store_up, value |-> None, result |-> "", reads |-> 0,
     deletes |-> 0, returned |-> FALSE, error |-> "", from_cache |-> FALSE,
     upstream |-> "", upstream_calls |-> 0, set_up |-> TRUE, set_calls |-> 0]

AuthState == <<users, refresh_tokens, uuids, inflight, issued>>

WeatherTick(steps, max_ticks) ==
    /\ Tick(steps, max_ticks)
    /\ l1_cache' = expire(l1_cache, now')

CacheGet(places, ups) ==
    \E place \in places, store_up \in ups :
        LET got == cache_get(l1_cache, redis, place[1], place[2], store_up, now)
        IN  /\ l1_cache' = got.l1
            /\ redis' = got.redis
            /\ last' = [WeatherCall("cache.get", place[1], place[2], store_up)
                          EXCEPT !.value = got.value, !.result = got.result,
                                 !.reads = got.reads, !.deletes = got.deletes]
            /\ UNCHANGED <<now, ticks, AuthState>>

\* set is called with what the upstream client has just returned.
CacheSet(places, ups) ==
    \E place \in places, store_up \in ups :
        LET weather_data == upstream(place[1], place[2], "echo", now).data
            stored == cache_set(l1_cache, redis, weather_data, store_up, now)
        IN  /\ l1_cache' = stored.l1
            /\ redis' = stored.redis
            /\ last' = [WeatherCall("cache.set", place[1], place[2], store_up)
                          EXCEPT !.value = weather_data, !.result = stored.result,
                                 !.returned = stored.returned]
            /\ UNCHANGED <<now, ticks, AuthState>>

GetCurrentWeather(places, ups, kinds) ==
    \E place \in places, get_up \in ups, set_up \in ups, kind \in kinds :
        LET out == get_current_weather(place[1], place[2], l1_cache, redis, get_up,
                                       kind, set_up, now)
        IN  /\ l1_cache' = out.l1
            /\ redis' = out.redis
            /\ last' = [WeatherCall("get_current_weather", place[1], place[2], get_up)
                          EXCEPT !.value = out.value, !.error = out.error,
                                 !.from_cache = out.from_cache, !.upstream = kind,
                                 !.upstream_calls = out.upstream_calls,
                                 !.set_up = set_up, !.set_calls = out.set_calls]
            /\ UNCHANGED <<now, ticks, AuthState>>

\* Another writer of the Redis instance leaves a string under a weather key.
Corrupt(places, texts) ==
    \E place \in places, text \in texts :
        /\ redis' = redis_setex(redis, _make_cache_key(place[1], place[2]),
                                weather_cache_ttl_seconds,
                                [text |-> text, data |-> None], now)
        /\ UNCHANGED <<now, ticks, AuthState, l1_cache, last>>

\* Berlin: latitude 52.520, longitude 13.410.
Places == {<<52520, 13410>>}

\* A second before the L1 entry and a second before the L2 entry of time 0 expire.
WeatherSteps == {L1_TTL_SECONDS - 1, weather_cache_ttl_seconds - 1}

WeatherNext ==
    \/ WeatherTick(WeatherSteps, MaxWeatherTicks) /\ UNCHANGED obs
    \/ CacheGet(Places, BOOLEAN) /\ UNCHANGED obs
    \/ CacheSet(Places, BOOLEAN) /\ UNCHANGED obs
    \/ GetCurrentWeather(Places, BOOLEAN, UpstreamKinds) /\ UNCHANGED obs
    \/ Corrupt(Places, Undecodable) /\ UNCHANGED obs

WeatherSpec == Init /\ [][WeatherNext]_vars

(***************************************************************************)
(* RateLimitMiddleware: the per-client limit in front of every route.      *)
(***************************************************************************)
ExemptPaths == {"/health", "/api/v1/health", "/api/v1/readiness"}

window_size == 60

\* The requests_per_minute the middleware is constructed with.
MaxRequestsPerMinute == 1

\* rate_key of a request without a bearer token.
MiddlewareKey(client) == Key("rate_limit:ip", client)

\* RateLimitMiddleware._check_rate_limit: the same pipeline as the
\* AuthRateLimiter's, without a try/except of its own.
Middleware_check_rate_limit(r, key, t) ==
    LET r1 == zremrangebyscore(r, key, 0, t - window_size, t)
        count == zcard(r1, key, t)
        r2 == zadd(r1, key, t, t, t)
        r3 == redis_expire(r2, key, window_size, t)
    IN  [redis |-> r3, is_allowed |-> count < MaxRequestsPerMinute,
         remaining |-> Max(0, MaxRequestsPerMinute - count - 1),
         reset_time |-> t + window_size]

\* What the downstream application does each time it is invoked: it returns
\* a response or raises.
HandlerOutcomes == {"response", "raises"}

\* call_next(request), invoked for the n-th time for this request.
call_next(handler, n) == IF handler[n] = "raises" THEN "raised" ELSE "200"

\* dispatch: calls counts the invocations of call_next, status is the
\* response returned ("raised" when an exception leaves dispatch).
dispatch(path, client, r, t, store_up, handler) ==
    LET checked == Middleware_check_rate_limit(r, MiddlewareKey(client), t)
    IN  IF path \in ExemptPaths
          THEN [redis |-> r, is_allowed |-> TRUE, calls |-> 1,
                status |-> call_next(handler, 1)]
        ELSE IF ~store_up
          THEN \* the pipeline raises; except Exception: call_next
               [redis |-> r, is_allowed |-> TRUE, calls |-> 1,
                status |-> call_next(handler, 1)]
        ELSE IF ~checked.is_allowed
          THEN [redis |-> checked.redis, is_allowed |-> FALSE, calls |-> 0,
                status |-> "429"]
        ELSE IF call_next(handler, 1) = "raised"
          THEN \* call_next is inside the try: except Exception: call_next
               [redis |-> checked.redis, is_allowed |-> TRUE, calls |-> 2,
                status |-> call_next(handler, 2)]
        ELSE [redis |-> checked.redis, is_allowed |-> TRUE, calls |-> 1,
              status |-> "200"]

Dispatch(paths, clients, ups) ==
    \E path \in paths, client \in clients, store_up \in ups,
       handler \in [1..2 -> HandlerOutcomes] :
        LET out == dispatch(path, client, redis, now, store_up, handler)
        IN  /\ redis' = out.redis
            /\ last' = [op |-> "dispatch", path |-> path, id |-> client,
                        store_up |-> store_up, handler |-> handler,
                        is_allowed |-> out.is_allowed, calls |-> out.calls,
                        status |-> out.status]
            /\ UNCHANGED <<now, ticks, users, refresh_tokens, uuids, inflight,
                           issued>>

Paths == {"/health", "/api/v1/auth/me"}

MiddlewareSteps == {1, window_size}

MiddlewareNext ==
    \/ Tick(MiddlewareSteps, MaxRateTicks) /\ UNCHANGED <<l1_cache, obs>>
    \/ Dispatch(Paths, Clients, BOOLEAN) /\ UNCHANGED <<l1_cache, obs>>

MiddlewareSpec == Init /\ [][MiddlewareNext]_vars

(***************************************************************************)
(* Properties of the session flows (checked under Spec).                   *)
(***************************************************************************)
\* A step that is a service call (the clock stands still during a call).
IsCall == ticks' = ticks

\* C1: once a refresh token has been rotated by a successful refresh, a later
\* refresh presenting the same raw token fails and issues no tokens.
C1_RotatedTokenIsRejected ==
    [][(IsCall /\ last'.op = "refresh" /\ last'.token \in obs.rotated)
         => (last'.error # "" /\ last'.refresh_token = NoToken /\ issued' = issued)]_vars

\* C3: after a successful password change, a refresh presenting a refresh token
\* issued to that user before the change fails and returns no new pair.
C3_PasswordChangeEndsSessions ==
    [][(IsCall /\ last'.op = "refresh" /\ last'.token \in obs.stale)
         => (last'.error # "" /\ last'.refresh_token = NoToken /\ issued' = issued)]_vars

\* C6: a token whose type claim differs from the expected kind is refused with
\* AuthenticationError: refresh never accepts an access token and
\* get_user_id_from_token never accepts a refresh token.
C6_WrongKindIsRefused ==
    /\ \A t \in Presentable : \A kind \in {"access", "refresh"} :
          t.type # kind => verify_token(t, kind, now).error = "AuthenticationError"
    /\ (last.op = "refresh" /\ last.token.type # "refresh")
          => (last.error = "AuthenticationError" /\ last.refresh_token = NoToken)
    /\ (last.op = "get_user_id_from_token" /\ last.token.type # "access")
          => last.error = "AuthenticationError"

\* C6 witness: a genuine, unexpired access token was presented to refresh and
\* refused for its type.
C6_Witness ==
    /\ last.op = "refresh"
    /\ last.token \in issued
    /\ last.token.type = "access"
    /\ now <= last.token.exp
    /\ last.text = "Invalid token type"

\* C8: every login or refresh that gets as far as issuing creates its own new
\* refresh-token row: it never ends in a storage conflict on the token digest,
\* and the refresh token it returns was never issued before.
C8_EveryIssueCreatesItsOwnRecord ==
    [][(IsCall /\ last'.op \in {"login", "refresh"})
         => /\ last'.text # "unique refresh_tokens.token_hash"
            /\ last'.error = "" => last'.refresh_token \notin issued]_vars

\* C17: once change_password has succeeded for a user, get_by_token_hash finds
\* nothing for the digest of any refresh token issued to the user before it.
C17_NoUsableRecordAfterPasswordChange ==
    \A t \in obs.stale : get_by_token_hash(refresh_tokens, sha256(t), now) = {}

\* C17 witness: the row of a refresh token issued before a password change is
\* still there and unexpired, and is not found because it is revoked; the
\* user has logged in again since.
C17_Witness ==
    /\ \E t \in obs.stale : \E row \in refresh_tokens :
          /\ row.token_hash = sha256(t)
          /\ row.revoked
          /\ row.expires_at > now
    /\ last.op = "login"
    /\ last.error = ""
    /\ last.refresh_token \notin obs.stale

(***************************************************************************)
(* Properties of the lockout (checked under LockSpec).                     *)
(***************************************************************************)
Locked(r, user_id) == LockoutKey(user_id) \in DOMAIN r

LockoutFlavoured == {LockedRetryIn, LockedRetryFixed}

\* The user a login call named, with the password it tried being wrong.
WrongLoginOf(u) ==
    /\ last'.op = "login"
    /\ u.email = last'.email
    /\ ~verify_password(last'.password, u.password_hash)

\* C2: a login for an existing user whose lockout flag is present fails with
\* the lockout error whatever the password: nothing is issued, no refresh-token
\* row is created, and the failed-login counter is left as it was.
C2_LockoutPrecedesPassword ==
    [][(IsCall /\ last'.op = "login"
          /\ \E u \in users : u.email = last'.email /\ Live(redis, LockoutKey(u.id), now))
         => /\ last'.error = "AuthenticationError"
            /\ last'.text = LockedRetryIn
            /\ last'.refresh_token = NoToken
            /\ issued' = issued
            /\ refresh_tokens' = refresh_tokens
            /\ redis' = redis]_vars

\* C2 witness: a login with the correct password was refused for the lockout.
C2_Witness ==
    /\ last.op = "login"
    /\ last.text = LockedRetryIn
    /\ \E u \in users : u.email = last.email /\ verify_password(last.password, u.password_hash)

\* C5 as stated: the k-th consecutive wrong-password login of a user gets the
\* generic error when k < threshold, and when k = threshold gets the lockout
\* error and sets the lockout flag for 15 minutes.
C5_KthWrongLogin ==
    [][\A u \in users :
         (IsCall /\ WrongLoginOf(u)) =>
            /\ obs'.streak[u.id].k < FAILED_LOGIN_THRESHOLD => last'.text = InvalidCredentials
            /\ obs'.streak[u.id].k = FAILED_LOGIN_THRESHOLD =>
                 /\ last'.text \in LockoutFlavoured
                 /\ ~Locked(redis, u.id)
                 /\ Locked(redis', u.id)
                 /\ redis'[LockoutKey(u.id)].expire_at = now + ACCOUNT_LOCKOUT_MINUTES * 60]_vars

\* C5 amended: the same, provided each of the k wrong-password logins came no
\* later than the counter's TTL (one hour) after the one before.
C5_KthWrongLoginWithinTtl ==
    [][\A u \in users :
         (IsCall /\ WrongLoginOf(u)) =>
            /\ obs'.streak[u.id].k < FAILED_LOGIN_THRESHOLD
                 => last'.text = InvalidCredentials
            /\ (obs'.streak[u.id].k = FAILED_LOGIN_THRESHOLD /\ obs'.streak[u.id].within) =>
                 /\ last'.text = LockedRetryFixed
                 /\ last'.minutes = ACCOUNT_LOCKOUT_MINUTES
                 /\ ~Locked(redis, u.id)
                 /\ Locked(redis', u.id)
                 /\ redis'[LockoutKey(u.id)].expire_at = now + ACCOUNT_LOCKOUT_MINUTES * 60]_vars

\* C5 witness: the fifth wrong-password login in a row was answered with the
\* lockout error.
C5_Witness ==
    /\ last.op = "login"
    /\ last.text = LockedRetryFixed
    /\ \E u \in users :
          /\ u.email = last.email
          /\ obs.streak[u.id].k = FAILED_LOGIN_THRESHOLD
          /\ obs.streak[u.id].within
          /\ redis[LockoutKey(u.id)].expire_at = now + ACCOUNT_LOCKOUT_MINUTES * 60

\* C9: a successful login leaves the user's failed-login count at zero, so the
\* account is locked only after threshold wrong-password logins since the last
\* successful login; and the counter is deleted only by a login whose password
\* verified.
C9_SuccessResetsCounter ==
    [][\A u \in users :
         /\ (IsCall /\ last'.op = "login" /\ last'.error = "" /\ u.email = last'.email)
              => FailedCount(redis', u.id) = 0
         /\ Locked(redis', u.id) => obs'.streak[u.id].k >= FAILED_LOGIN_THRESHOLD
         /\ (IsCall /\ FailedCount(redis, u.id) > 0 /\ FailedCount(redis', u.id) = 0)
              => /\ last'.op = "login"
                 /\ u.email = last'.email
                 /\ verify_password(last'.password, u.password_hash)]_vars

\* C9 witness: a successful login cleared a counter that was not zero, and the
\* fourth wrong-password login after it has just been answered without a lock.
C9_Witness ==
    /\ last.op = "login"
    /\ last.text = InvalidCredentials
    /\ \E u \in users :
          /\ u.email = last.email
          /\ obs.streak[u.id].cleared
          /\ obs.streak[u.id].k = FAILED_LOGIN_THRESHOLD - 1
          /\ FailedCount(redis, u.id) = FAILED_LOGIN_THRESHOLD - 1
          /\ ~Locked(redis, u.id)

\* C10: once the lockout flag has expired the user is Clear again: the account
\* is locked only after threshold failures recorded since then, and a
\* wrong-password login short of that gets the generic error.
C10_ClearAfterLockoutExpiry ==
    [][\A u \in users :
         /\ Locked(redis', u.id) => obs'.streak[u.id].since_clear >= FAILED_LOGIN_THRESHOLD
         /\ (IsCall /\ WrongLoginOf(u) /\ obs'.streak[u.id].since_clear < FAILED_LOGIN_THRESHOLD)
              => last'.text = InvalidCredentials]_vars

\* A login call that named no registered user.
UnknownLogin == last'.op = "login" /\ get_by_email(users, last'.email) = {}

\* C13 as stated: at every attempt, a login for an email with no user and a
\* wrong-password login of a registered user fail with AuthenticationError and
\* the same message.
C13_SameFailureAtEveryAttempt ==
    [][(IsCall /\ (UnknownLogin \/ \E u \in users : WrongLoginOf(u)))
         => /\ last'.error = "AuthenticationError"
            /\ last'.text = InvalidCredentials]_vars

\* C13 amended: a login for an email with no user always fails with the
\* generic message and leaves the store alone; a wrong-password login of a
\* registered user fails with the same error, and with the same message
\* exactly when the account is not locked and the failure leaves the count
\* below the threshold; otherwise its message is a lockout message.
C13_SameFailureShortOfLockout ==
    [][/\ (IsCall /\ UnknownLogin)
            => /\ last'.error = "AuthenticationError"
               /\ last'.text = InvalidCredentials
               /\ redis' = redis
       /\ \A u \in users :
            (IsCall /\ WrongLoginOf(u))
              => /\ last'.error = "AuthenticationError"
                 /\ last'.text \in LockoutFlavoured \cup {InvalidCredentials}
                 /\ last'.text = InvalidCredentials
                      <=> /\ ~Locked(redis, u.id)
                          /\ FailedCount(redis, u.id) + 1 < FAILED_LOGIN_THRESHOLD]_vars

\* C13 witness: a login for an unknown email got the generic message while a
\* registered user, one failure short of the lockout, has been getting the
\* same message for wrong passwords.
C13_Witness ==
    /\ last.op = "login"
    /\ get_by_email(users, last.email) = {}
    /\ last.text = InvalidCredentials
    /\ \E u \in users :
          /\ obs.streak[u.id].k = FAILED_LOGIN_THRESHOLD - 1
          /\ FailedCount(redis, u.id) = FAILED_LOGIN_THRESHOLD - 1
          /\ ~Locked(redis, u.id)

(***************************************************************************)
(* Properties of the sliding-window limits (checked under RateSpec).       *)
(***************************************************************************)
\* C4: for a check that reaches the store, if at least `limit` earlier checks
\* on the key fall within the window that ends at this call, the call is
\* denied; and if a full window has passed since the last check on the key
\* (or there was none), the call is allowed.
C4_WindowLimit ==
    [][(IsCall /\ last'.op = "check_rate_limit" /\ last'.store_up) =>
         LET before == Len(InWindow(HitsOn(RateKey(last'.name, last'.id)), now))
         IN  /\ before >= RateLimitOf(last'.name) => ~last'.is_allowed
             /\ before = 0 => last'.is_allowed]_vars

\* C14: a check whose pipeline does not reach the store raises nothing and
\* answers allowed, with remaining = the limit and reset = now + window, for
\* each of the four named limits; it leaves the store as it was.
C14_FailOpen ==
    [][(IsCall /\ last'.op = "check_rate_limit" /\ ~last'.store_up)
         => /\ last'.error = ""
            /\ last'.is_allowed
            /\ last'.remaining = RateLimitOf(last'.name)
            /\ last'.reset_time = now + RATE_WINDOW_SECONDS
            /\ redis' = redis]_vars

\* C14 witness: a check that could not reach the store was allowed although
\* the limit's worth of earlier checks fall within its window.
C14_Witness ==
    /\ last.op = "check_rate_limit"
    /\ ~last.store_up
    /\ last.is_allowed
    /\ last.remaining = RateLimitOf(last.name)
    /\ Len(InWindow(HitsOn(RateKey(last.name, last.id)), now)) >= RateLimitOf(last.name)

(***************************************************************************)
(* Properties of concurrent requests (checked under ConcSpec).             *)
(***************************************************************************)
\* No usable (unrevoked, unexpired) refresh-token row belongs to a user whose
\* row is absent.
OrphanFree(us, toks) ==
    \A r \in toks : (~r.revoked /\ r.expires_at > now) => \E u \in us : u.id = r.user_id

C11_ResetClearsLockout ==
    [][\A i \in DOMAIN inflight :
         (/\ i \in DOMAIN inflight'
          /\ inflight[i].pc = "reset_failed_login"
          /\ inflight'[i].pc = "create")
         => /\ ~is_account_locked(redis', inflight[i].user_id, now').is_locked
            /\ FailedCount(redis', inflight[i].user_id) = 0]_vars

\* C12: a lockout flag is set to expire the lockout duration after the moment
\* it is set, no step changes the expiry of a flag that is already set, and
\* the flag goes away only with the clock passing that expiry.
C12_LockoutExpiryIsFixed ==
    [][\A u \in users :
         /\ (~Locked(redis, u.id) /\ Locked(redis', u.id))
              => redis'[LockoutKey(u.id)].expire_at = now + ACCOUNT_LOCKOUT_MINUTES * 60
         /\ (Locked(redis, u.id) /\ Locked(redis', u.id))
              => redis'[LockoutKey(u.id)].expire_at = redis[LockoutKey(u.id)].expire_at
         /\ (Locked(redis, u.id) /\ ~Locked(redis', u.id))
              => now' > redis[LockoutKey(u.id)].expire_at]_vars

(***************************************************************************)
(* Properties of logins during a store outage (checked under OutageSpec).  *)
(***************************************************************************)
\* C15: a login made while the store is unreachable never fails with a store
\* error: with the password of an active user it succeeds and returns tokens,
\* and with a wrong password it fails with the generic AuthenticationError.
C15_LoginSurvivesOutage ==
    [][(IsCall /\ last'.op = "login" /\ ~last'.store_up)
         => /\ last'.error \in {"", "AuthenticationError"}
            /\ \A u \in users :
                 /\ (/\ u.email = last'.email
                     /\ verify_password(last'.password, u.password_hash)
                     /\ can_authenticate(u))
                      => (last'.error = "" /\ last'.refresh_token # NoToken)
                 /\ WrongLoginOf(u)
                      => (last'.error = "AuthenticationError"
                          /\ last'.text = InvalidCredentials)]_vars

(***************************************************************************)
(* Properties of the token codec (checked under CodecSpec).                *)
(***************************************************************************)
\* C16: verify_token returns the token's claims exactly when the signature is
\* valid, sub, exp and type are all present, type is the expected kind, the
\* clock is not past exp, and nbf is absent or not after the clock; in every
\* other case it raises AuthenticationError and returns nothing.
C16_VerifyExactly ==
    [][(IsCall /\ last'.op = "verify_token") =>
         LET tok == last'.token
             got == last'.payload
             good == /\ tok.sig = "valid"
                     /\ {"sub", "exp", "type"} \subseteq tok.claims
                     /\ tok.type = last'.token_type
                     /\ ~(now > tok.exp)
                     /\ ("nbf" \notin tok.claims \/ now >= tok.nbf)
         IN  /\ good => /\ got.error = ""
                        /\ got.sub = tok.sub /\ got.exp = tok.exp /\ got.type = tok.type
             /\ ~good => /\ got.error = "AuthenticationError"
                         /\ DOMAIN got = {"error", "text"}]_vars

\* C16 witness: a token carrying nbf was accepted at the very second of its
\* nbf and of its exp.
C16_Witness ==
    /\ last.op = "verify_token"
    /\ last.payload.error = ""
    /\ "nbf" \in last.token.claims
    /\ last.token.nbf = now
    /\ last.token.exp = now

(***************************************************************************)
(* Properties of the refresh-token repository (checked under RepoSpec).    *)
(***************************************************************************)
\* C18: get_by_token_hash returns a row only if a row with that digest exists
\* that is not revoked and expires strictly after now, and then returns that
\* row; for a revoked, expired (expires_at <= now) or missing row it returns
\* nothing.
C18_FindUsable ==
    [][(IsCall /\ last'.op = "get_by_token_hash") =>
         LET rows == {r \in refresh_tokens : r.token_hash = last'.token_hash}
         IN  /\ \A r \in last'.found :
                  r \in rows /\ r.revoked = FALSE /\ r.expires_at > now
             /\ (\E r \in rows : r.revoked = FALSE /\ r.expires_at > now)
                  => Cardinality(last'.found) = 1
             /\ (\A r \in rows : r.revoked \/ r.expires_at <= now)
                  => last'.found = {}]_vars

\* C18 witness: nothing was found for a digest whose row is not revoked and
\* expires at this very instant.
C18_Witness ==
    /\ last.op = "get_by_token_hash"
    /\ last.found = {}
    /\ \E r \in refresh_tokens :
          r.token_hash = last.token_hash /\ ~r.revoked /\ r.expires_at = now

\* C19: revoke_by_token_hash and revoke_by_user_id raise nothing and are
\* idempotent: applied again to the table they leave, they leave it as it is;
\* applied to a digest without a row, to rows already revoked or to a user
\* without tokens, they change nothing; and all they ever change is the
\* revoked flag of the rows they name, to true.
C19_RevokeIdempotent ==
    [][(IsCall /\ last'.op \in {"revoke_by_token_hash", "revoke_by_user_id"}) =>
         LET named(r) == IF last'.op = "revoke_by_token_hash"
                         THEN r.token_hash = last'.token_hash
                         ELSE r.user_id = last'.user_id
             again == IF last'.op = "revoke_by_token_hash"
                      THEN revoke_by_token_hash(refresh_tokens', last'.token_hash)
                      ELSE revoke_by_user_id(refresh_tokens', last'.user_id)
         IN  /\ last'.error = ""
             /\ again = refresh_tokens'
             /\ (\A r \in refresh_tokens : named(r) => r.revoked)
                  => refresh_tokens' = refresh_tokens
             /\ refresh_tokens' =
                  {IF named(r) THEN [r EXCEPT !.revoked = TRUE] ELSE r : r \in refresh_tokens}]_vars

\* C19 witness: revoke_by_user_id was applied to a user all of whose rows were
\* revoked already, and changed nothing.
C19_Witness ==
    /\ last.op = "revoke_by_user_id"
    /\ ~last.changed
    /\ \E r \in refresh_tokens : r.user_id = last.user_id /\ r.revoked

(***************************************************************************)
(* Properties of the stored rows under account deletion (checked under     *)
(* ConcSpec).                                                              *)
(***************************************************************************)
\* C20: refresh-token rows are append-only: no step removes a row, and the
\* only change a step makes to a row is to turn revoked from false to true.
C20_AppendOnly ==
    [][\A r \in refresh_tokens :
         \E kept \in refresh_tokens' :
            /\ kept.id = r.id
            /\ [kept EXCEPT !.revoked = r.revoked] = r
            /\ r.revoked => kept.revoked]_vars

(***************************************************************************)
(* Properties of the service contracts (checked under AccountSpec).        *)
(***************************************************************************)
AuthOperations ==
    {"register", "login", "refresh", "change_password", "update_profile",
     "delete_account"}

\* C21: every call of register, login, refresh, change_password, update_profile
\* or delete_account records exactly one metric, of its own operation: success
\* when it returned, error when it raised (ValidationError, AuthenticationError
\* or anything else), and what it raised reaches the caller.
C21_OneMetricPerCall ==
    last.op \in AuthOperations
        => last.metrics = <<[operation |-> last.op,
                             status |-> IF last.error = "" THEN "success" ELSE "error"]>>

\* A login that raised what Redis raised, with its metric.
C21_Witness ==
    /\ last.op = "login"
    /\ last.error = "ConnectionError"
    /\ Len(last.metrics) = 1

\* C22: register raises ValidationError and stores no user when the email is
\* taken or has no '@', the password has fewer than 8 characters or the name is
\* blank; otherwise it stores exactly one new active user with the trimmed
\* name.  Either way it returns no token and creates no refresh-token row.
C22_RegisterValidates ==
    [][(IsCall /\ last'.op = "register")
         => LET invalid == \/ get_by_email(users, last'.email) # {}
                           \/ ~Contains(last'.email, "@")
                           \/ Len(last'.password) < MIN_PASSWORD_LENGTH
                           \/ \A i \in DOMAIN last'.full_name : last'.full_name[i] = " "
            IN  /\ invalid => last'.error = "ValidationError" /\ users' = users
                /\ ~invalid =>
                     /\ last'.error = ""
                     /\ \E u \in users' \ users :
                          /\ users' = users \cup {u}
                          /\ u.email = last'.email
                          /\ u.is_active
                          /\ u.full_name = strip(last'.full_name)
                          /\ u.full_name[1] # " " /\ u.full_name[Len(u.full_name)] # " "
                /\ refresh_tokens' = refresh_tokens
                /\ issued' = issued
                /\ last'.access_token = NoToken /\ last'.refresh_token = NoToken]_vars

\* A register of a padded name that stored the trimmed name.
C22_Witness ==
    /\ last.op = "register"
    /\ last.error = ""
    /\ last.full_name = NamePadded
    /\ \E u \in users : u.email = last.email /\ u.full_name = NameAnn /\ u.is_active

\* C23: a refresh with a token that is no JWT, whose signature does not match,
\* that has expired or that is an access token raises AuthenticationError and
\* leaves the refresh-token rows as they were.
C23_BadTokenChangesNothing ==
    [][(/\ IsCall
        /\ last'.op = "refresh"
        /\ \/ last'.token.sig # "valid"
           \/ last'.token.exp < now
           \/ last'.token.type = "access")
         => (/\ last'.error = "AuthenticationError"
             /\ refresh_tokens' = refresh_tokens
             /\ last'.refresh_token = NoToken
             /\ issued' = issued)]_vars

\* A refresh with a genuine refresh token past its expiry was refused while the
\* token's row was there.
C23_Witness ==
    /\ last.op = "refresh"
    /\ last.token.sig = "valid"
    /\ last.token.type = "refresh"
    /\ last.token.exp < now
    /\ last.error = "AuthenticationError"
    /\ \E row \in refresh_tokens : row.token_hash = sha256(last.token) /\ ~row.revoked

\* C24: change_password raises ValidationError for an absent user,
\* AuthenticationError when the current password does not verify (whatever the
\* new password is) and ValidationError when the new password has fewer than
\* 8 characters or equals the current one; a call that raised left the users
\* rows and the refresh-token rows as they were.
C24_ChangePasswordFailures ==
    [][(IsCall /\ last'.op = "change_password")
         => LET found == {u \in users : u.id = last'.user_id}
                verified == \A u \in found :
                               u.password_hash = hash_password(last'.password)
            IN  /\ found = {} => last'.error = "ValidationError"
                /\ (found # {} /\ ~verified) => last'.error = "AuthenticationError"
                /\ (found # {} /\ verified
                      /\ (\/ Len(last'.new_password) < MIN_PASSWORD_LENGTH
                          \/ last'.new_password = last'.password))
                     => last'.error = "ValidationError"
                /\ last'.error # ""
                     => users' = users /\ refresh_tokens' = refresh_tokens]_vars

\* A change_password with a wrong current password and a new password that is
\* too short raised AuthenticationError.
C24_Witness ==
    /\ last.op = "change_password"
    /\ last.new_password = PasswordShort
    /\ \E u \in users : u.id = last.user_id /\ ~verify_password(last.password, u.password_hash)
    /\ last.error = "AuthenticationError"

\* C25: update_profile with a name whose trimmed value is the stored name
\* succeeds with one success metric and leaves the row (full_name, updated_at)
\* as it was; for an absent user or a blank name it raises ValidationError and
\* changes nothing; otherwise the row gets the trimmed name and updated_at = now.
C25_UpdateProfile ==
    [][(IsCall /\ last'.op = "update_profile")
         => LET found == {u \in users : u.id = last'.user_id}
                blank == \A i \in DOMAIN last'.full_name : last'.full_name[i] = " "
                trimmed == strip(last'.full_name)
            IN  /\ (found = {} \/ blank)
                     => last'.error = "ValidationError" /\ users' = users
                /\ \A u \in found :
                     /\ (~blank /\ u.full_name = trimmed)
                          => /\ last'.error = ""
                             /\ last'.metrics = Metric("update_profile", "success")
                             /\ users' = users
                     /\ (~blank /\ u.full_name # trimmed)
                          => /\ last'.error = ""
                             /\ users' = (users \ {u})
                                  \cup {[u EXCEPT !.full_name = trimmed,
                                                  !.updated_at = now]}
                /\ refresh_tokens' = refresh_tokens]_vars

\* An update_profile of a later time with the stored name, padded: the row
\* still carries the time of the registration.
C25_Witness ==
    /\ last.op = "update_profile"
    /\ last.error = ""
    /\ last.full_name = NamePadded
    /\ now > 0
    /\ \E u \in users : u.id = last.user_id /\ u.full_name = NameAnn /\ u.updated_at = 0

(***************************************************************************)
(* Properties of the weather cache and service (checked under WeatherSpec).*)
(***************************************************************************)
\* A step in which another writer left a string under a weather key.
Overwritten ==
    \E key \in DOMAIN redis' :
        /\ key.ns = CACHE_KEY_PREFIX
        /\ redis'[key].value.text \in Undecodable
        /\ key \notin DOMAIN redis \/ redis[key] # redis'[key]

\* A step that is the call `operation` of the cache or of the service.
IsWeatherCall(operation) == IsCall /\ ~Overwritten /\ last'.op = operation

\* The cache key of the call in `last`.
KeyOf(call) == _make_cache_key(call.latitude, call.longitude)

InL1(key) == key \in DOMAIN l1_cache /\ now < l1_cache[key].expires

\* The L2 entry of the key is one that set wrote.
DecodableInL2(key) == Live(redis, key, now) /\ redis[key].value.text = "object"

\* C26: get returns a live L1 entry without reading Redis; when L1 has none and
\* L2 has a decodable one, it returns that value and stores it in L1, so that a
\* get of the same key right afterwards returns it from L1 without reading
\* Redis; when neither tier has an entry it returns None and stores nothing.
C26_TieredGet ==
    [][IsWeatherCall("cache.get")
         => LET key == KeyOf(last')
                again == cache_get(l1_cache', redis', last'.latitude, last'.longitude,
                                   last'.store_up, now)
            IN  /\ InL1(key)
                     => /\ last'.value = l1_cache[key].value
                        /\ last'.reads = 0
                        /\ l1_cache' = l1_cache /\ redis' = redis
                /\ (~InL1(key) /\ last'.store_up /\ DecodableInL2(key))
                     => /\ last'.value.latitude = redis[key].value.data.latitude
                        /\ last'.value.longitude = redis[key].value.data.longitude
                        /\ last'.value.retrieved_at = redis[key].value.data.retrieved_at.iso
                        /\ last'.value # None
                        /\ key \in DOMAIN l1_cache' /\ l1_cache'[key].value = last'.value
                        /\ again.value = last'.value /\ again.reads = 0
                /\ (~InL1(key) /\ last'.store_up /\ ~Live(redis, key, now))
                     => /\ last'.value = None
                        /\ l1_cache' = l1_cache /\ redis' = redis]_vars

\* A get answered from L2, for an entry older than the L1 lifetime, has put the
\* value into L1.
C26_Witness ==
    /\ last.op = "cache.get"
    /\ last.result = "l2_hit"
    /\ last.value.retrieved_at + L1_TTL_SECONDS <= now
    /\ InL1(KeyOf(last)) /\ l1_cache[KeyOf(last)].value = last.value

\* C27: set always leaves the value in L1; it returns True exactly when the
\* write to Redis succeeded, and False, raising nothing, when it failed.
C27_SetWritesL1 ==
    [][IsWeatherCall("cache.set")
         => LET key == _make_cache_key(last'.value.latitude, last'.value.longitude)
            IN  /\ key \in DOMAIN l1_cache' /\ l1_cache'[key].value = last'.value
                /\ now < l1_cache'[key].expires
                /\ last'.error = ""
                /\ last'.returned = last'.store_up
                /\ last'.store_up
                     => /\ Live(redis', key, now)
                        /\ redis'[key].value = json_dumps(last'.value)
                        /\ redis'[key].expire_at = now + weather_cache_ttl_seconds
                /\ ~last'.store_up => redis' = redis]_vars

\* A set that could not reach Redis returned False and the value is in L1.
C27_Witness ==
    /\ last.op = "cache.set"
    /\ ~last.store_up
    /\ ~last.returned
    /\ InL1(KeyOf(last)) /\ l1_cache[KeyOf(last)].value = last.value
    /\ ~Live(redis, KeyOf(last), now)

\* C28: when L1 has no entry and the L2 entry cannot be decoded, get returns
\* None, deletes the key from Redis exactly once and stores nothing in L1; when
\* Redis is unreachable, get returns None, raises nothing and deletes nothing.
C28_UndecodableIsDeleted ==
    [][(IsWeatherCall("cache.get") /\ ~InL1(KeyOf(last')))
         => LET key == KeyOf(last')
            IN  /\ (last'.store_up /\ Live(redis, key, now) /\ ~DecodableInL2(key))
                     => /\ last'.value = None
                        /\ last'.deletes = 1
                        /\ key \notin DOMAIN redis'
                        /\ l1_cache' = l1_cache
                /\ ~last'.store_up
                     => /\ last'.value = None
                        /\ last'.error = ""
                        /\ last'.deletes = 0
                        /\ redis' = redis]_vars

\* C29: get_current_weather calls the upstream client exactly when the cache
\* lookup returned nothing, and cache.set once exactly when that upstream call
\* succeeded: a hit is returned with from_cache true; a miss with from_cache
\* false, whether or not set could reach Redis; an upstream error is raised to
\* the caller and set is not called.
C29_UpstreamOnMiss ==
    [][IsWeatherCall("get_current_weather")
         => LET key == KeyOf(last')
                hit == InL1(key) \/ (last'.store_up /\ DecodableInL2(key))
                failed == last'.upstream \in {"timeout", "unavailable"}
            IN  /\ last'.upstream_calls = IF hit THEN 0 ELSE 1
                /\ last'.set_calls = IF ~hit /\ ~failed THEN 1 ELSE 0
                /\ hit => last'.error = "" /\ last'.from_cache /\ last'.value # None
                /\ (~hit /\ ~failed)
                     => /\ last'.error = "" /\ ~last'.from_cache
                        /\ last'.value.retrieved_at = now
                /\ (~hit /\ failed)
                     => /\ last'.error = upstream(last'.latitude, last'.longitude,
                                                  last'.upstream, now).error
                        /\ last'.error # ""
                        /\ l1_cache' = l1_cache
                        /\ \A k \in DOMAIN redis' :
                             k \in DOMAIN redis /\ redis'[k] = redis[k]]_vars

\* A miss whose result could not be written to Redis was returned all the same.
C29_Witness ==
    /\ last.op = "get_current_weather"
    /\ last.upstream_calls = 1 /\ last.set_calls = 1
    /\ ~last.set_up
    /\ last.error = "" /\ ~last.from_cache
    /\ ~Live(redis, KeyOf(last), now)

\* C30: a result returned from the cache was fetched from the upstream at most
\* weather_cache_ttl_seconds (60 s) before the request that returns it.
C30_ServedWithinTtl ==
    [][(\/ IsWeatherCall("get_current_weather") /\ last'.from_cache
        \/ IsWeatherCall("cache.get") /\ last'.value # None)
         => now - last'.value.retrieved_at <= weather_cache_ttl_seconds]_vars

(***************************************************************************)
(* Properties of the sliding window itself (RateSpec, FloodSpec).          *)
(***************************************************************************)
\* The entries of a key's window that are less than a window old at time t.
Fresh(r, key, t) ==
    IF key \in DOMAIN r
    THEN {e \in r[key].value : e.score > t - RATE_WINDOW_SECONDS}
    ELSE {}

\* C32: for a check that reaches the store, with count the number of entries
\* of the key that are newer than now - window (an entry exactly a window old
\* is removed) before the call adds its own: allowed = (count < limit),
\* remaining = max(0, limit - count - 1), reset = now + window, and the key
\* expires a window after the call.
C32_CountBeforeAdding ==
    [][(IsCall /\ last'.op = "check_rate_limit" /\ last'.store_up)
         => LET key == RateKey(last'.name, last'.id)
                limit == RateLimitOf(last'.name)
                count == Cardinality(Fresh(redis, key, now))
            IN  /\ last'.is_allowed = (count < limit)
                /\ last'.remaining = (IF limit - count - 1 > 0 THEN limit - count - 1 ELSE 0)
                /\ last'.reset_time = now + RATE_WINDOW_SECONDS
                /\ key \in DOMAIN redis'
                /\ redis'[key].expire_at = now + RATE_WINDOW_SECONDS
                /\ \A e \in redis'[key].value : e.score > now - RATE_WINDOW_SECONDS]_vars

\* A check made exactly a window after the key's earlier entries was allowed
\* with all but one of the limit remaining: the key holds its entry alone.
C32_Witness ==
    /\ last.op = "check_rate_limit"
    /\ last.store_up
    /\ now = RATE_WINDOW_SECONDS
    /\ last.remaining = RateLimitOf(last.name) - 1
    /\ obs.hits # <<>>
    /\ LET key == RateKey(last.name, last.id)
       IN  /\ Len(HitsOn(key)) = 1
           /\ key \in DOMAIN redis
           /\ redis[key].value = {[member |-> now, score |-> now]}

\* C33: the window of a key never holds more than limit + 1 entries.
C33_WindowHoldsAtMostOneDenied ==
    \A name \in LimitNames, id \in Clients :
        RateKey(name, id) \in DOMAIN redis
            => Cardinality(redis[RateKey(name, id)].value) <= RateLimitOf(name) + 1

\* C39: a check that reaches the store adds one entry of its own: the key's
\* window afterwards holds the entries left by the pruning and one more.
C39_EveryCallAddsAnEntry ==
    [][(IsCall /\ last'.op = "check_rate_limit" /\ last'.store_up)
         => LET key == RateKey(last'.name, last'.id)
            IN  /\ key \in DOMAIN redis'
                /\ Cardinality(redis'[key].value)
                     = Cardinality(Fresh(redis, key, now)) + 1]_vars

(***************************************************************************)
(* Properties of logins for unknown emails (checked under OutageSpec).     *)
(***************************************************************************)
\* C35: a login for an email without a user calls neither is_account_locked
\* nor record_failed_login nor reset_failed_login: it fails with the generic
\* error whether or not Redis can be reached, and leaves every failed-login
\* counter and lockout flag as it was.
C35_UnknownEmailLeavesLockoutAlone ==
    [][(IsCall /\ last'.op = "login" /\ get_by_email(users, last'.email) = {})
         => (/\ last'.error = "AuthenticationError"
             /\ last'.text = InvalidCredentials
             /\ redis' = redis)]_vars

\* A login for an unknown email failed with the generic error while Redis was
\* unreachable and a registered user had a failure on record.
C35_Witness ==
    /\ last.op = "login"
    /\ get_by_email(users, last.email) = {}
    /\ ~last.store_up
    /\ last.error = "AuthenticationError"
    /\ \E u \in users : FailedCount(redis, u.id) > 0

(***************************************************************************)
(* Properties of the rate-limit middleware (checked under MiddlewareSpec). *)
(***************************************************************************)
\* C40: the middleware hands a request to the downstream handler at most
\* once: exactly once when the request is allowed, is for an exempt path, or
\* the store check failed, and never when the limit is exceeded (429), also
\* when the handler raises.
C40_HandlerCalledAtMostOnce ==
    [][(IsCall /\ last'.op = "dispatch")
         => (/\ last'.calls <= 1
             /\ (last'.path \in ExemptPaths \/ ~last'.store_up
                   \/ last'.is_allowed) => last'.calls = 1
             /\ ~last'.is_allowed
                  => (last'.calls = 0 /\ last'.status = "429"))]_vars

(***************************************************************************)
(* Properties of concurrent refreshes of one token (checked under          *)
(* TwinSpec).                                                              *)
(***************************************************************************)
\* C36: of two refresh_access_token calls in progress at the same time that
\* present the same valid refresh token, at most one returns a new pair: a
\* call that finishes after the other one returned a pair returns none.
C36_OneRefreshPerToken ==
    (last.op = "refresh" /\ obs.raced) => last.error # ""

(***************************************************************************)
(* Properties of deactivated and deleted users (checked under              *)
(* InactiveSpec).                                                          *)
(***************************************************************************)
\* C37: login and refresh_access_token return a token pair only for a user
\* whose row is present and active at that time: login rejects an inactive
\* account also with the correct password, and a refresh with a token of a
\* user deactivated or deleted since fails without tokens.
C37_PairOnlyForActiveUser ==
    [][(IsCall /\ last'.op \in {"login", "refresh"})
         => LET owner == IF last'.op = "login"
                         THEN get_by_email(users, last'.email)
                         ELSE {u \in users : u.id = last'.token.sub}
            IN  (\A u \in owner : ~u.is_active)
                  => (/\ last'.error # ""
                      /\ last'.access_token = NoToken
                      /\ last'.refresh_token = NoToken)]_vars

(***************************************************************************)
(* Properties of concurrent registrations (checked under EnrolSpec).       *)
(***************************************************************************)
\* A step in which a call returned to its caller: at once, or as a request in
\* progress that finished.
Answered ==
    /\ ticks' = ticks
    /\ \/ inflight' = inflight
       \/ DOMAIN inflight' # DOMAIN inflight /\ DOMAIN inflight' \subseteq DOMAIN inflight

\* C38: in every interleaving of register calls with the same email, at most
\* one user with that email is persisted, and a call that returns when a user
\* with its email is already persisted fails with ValidationError ("Email
\* already registered"), not with another error.
C38_DuplicateIsValidationError ==
    [][/\ \A u, v \in users' : u.email = v.email => u = v
       /\ (Answered /\ last'.op = "register"
             /\ get_by_email(users, last'.email) # {})
            => (/\ last'.error = "ValidationError"
                /\ last'.text = "Email already registered")]_vars

(***************************************************************************)
(* Properties of comparisons after the lockout (checked under GateSpec).   *)
(***************************************************************************)
\* C34: in every interleaving of logins for one user, a password comparison
\* made while the lockout flag is set is made by a login whose
\* is_account_locked was answered before the flag was set and that was in
\* progress when the flag was set; the comparisons made since the flag was
\* set are at most as many as the logins in progress at that moment.
C34_LateComparisonsWereInFlight ==
    [][\A i \in Comparing :
          Flagged(redis, inflight[i].user_id, now)
            => /\ i \in obs.overlapped
               /\ i \in obs.stale
               /\ Len(obs'.hits[LockoutKey(inflight[i].user_id)]) <= obs'.streak[1]]_vars

\* A login compared a password while the flag was set, having passed
\* is_account_locked before.
C34_Witness ==
    /\ obs.raced
    /\ \E id \in UserIds : /\ Flagged(redis, id, now)
                           /\ Len(HitsOn(LockoutKey(id))) >= 1
                           /\ obs.streak = <<1>>

(***************************************************************************)
(* Properties of concurrent checks on one key (checked under PipeSpec).    *)
(***************************************************************************)
\* C31: the pipeline of a check takes effect as one unit, and in every
\* interleaving of concurrent calls on one key at most `limit` of the calls
\* made within one window are allowed.
C31_AtMostLimitAllowedPerWindow ==
    \A name \in LimitNames, id \in Clients :
        LET allowed == HitsOn(RateKey(name, id))
        IN  \A i \in DOMAIN allowed :
                Cardinality({j \in DOMAIN allowed :
                               /\ allowed[i] <= allowed[j]
                               /\ allowed[j] < allowed[i] + RATE_WINDOW_SECONDS})
                  <= RateLimitOf(name)

====
